---- MODULE Spec2Model ----
(***************************************************************************)
(* Tenant-aware proxying and dispatch engine of the VPN proxy gateway:     *)
(* tenant resolution (routeManager detectSite / detectSiteSync /           *)
(* detectSiteAndNeocore), the proxy registries (apiProxies, socketProxies, *)
(* wsProxies, device proxies), configuration refresh and the WebSocket     *)
(* upgrade coordinator.                                                    *)
(*                                                                         *)
(* Strings are modelled structurally.  A URL path "/a/b/c" is the sequence *)
(* <<"a","b","c">> of its segments ("/a/b/" is <<"a","b","">>), so that a  *)
(* regular expression over "/"-separated text becomes a condition on       *)
(* consecutive segments.  A Cookie header "k1=v1; k2=v2" is the sequence   *)
(* of its pairs.  A configuration object (SITES) is the sequence of its    *)
(* own entries in insertion order.                                         *)
(***************************************************************************)
EXTENDS Naturals, Integers, Sequences, FiniteSets, TLC

VARIABLES
  SITES,        \* index.js: let SITES (the current tenant configuration)
  siteCache,    \* siteCacheService: siteCache Map (slug -> cached config or null)
  req,          \* the request a resolver run is applied to
  pc,           \* position of the resolver run
  pending,      \* slug the asynchronous resolver awaits the Tenant Store for
  rSync,        \* result of detectSiteSync(req, SITES)
  rAsync,       \* result of detectSite(req, SITES)
  rSan,         \* result of detectSiteAndNeocore(req, SITES)
  rUpg,         \* the upgrade coordinator's resolution of req, stage by stage
  regSites,     \* registerNeocoreRoutes: const allSites = getCurrentSites() at registration
  apiProxies,   \* registerNeocoreRoutes: apiProxies Map (key -> proxy instance)
  socketProxies,  \* registerNeocoreRoutes: socketProxies Map
  rootProxyCache, \* assetsService: rootProxyCache Map (site.name -> proxy instance)
  deviceRoutes, \* registerDevicesRoutes: device proxies mounted at registration
  instances,    \* every proxy instance constructed so far
  reqs,         \* the HTTP requests in flight and their outcome
  refreshes,    \* number of configuration refreshes applied
  upgradeListeners, \* server 'upgrade' listeners: the wsProxies Map each one closes over
  conn,         \* an upgrade request, its socket, and what the listeners did with it
  sockets,      \* the WebSocket connections handed to the wsProxies instances
  rw,           \* a body given to rewriteContent, and the results of one and two passes
  fwd,          \* a forwarded HTTP request: the backend's answer and the client's response
  tunnel,       \* tunnelManager: site.devices.ssh, site.devices.tunnelReady, pending callbacks
  devReqs,      \* device requests that reached tunnelCheck, and their outcome
  now,          \* Date.now(), in seconds
  cacheEntries, \* siteCacheService: siteCache Map with its expiry (slug -> entry)
  dbRows,       \* the rows of the Tenant Store's database
  lookups,      \* the getSiteBySlug calls made so far and what they returned
  updates,      \* the calls of updateSitesConfiguration made so far
  mw,           \* a request in the device-asset middleware of registerDevicesRoutes
  sessions,     \* sessionManager: sessions Map (sessionId -> record)
  siteSessions, \* sessionManager: siteSessions Map (siteName -> set of sessionIds)
  assetCache,   \* assetsService: assetCache Map (sessionId:fileName -> content)
  clock,        \* Date.now() of the session store, in hours
  issued,       \* number of session ids crypto.randomBytes has produced
  calls         \* the latest getAsset call and what it returned or threw

resolveVars == <<req, pc, pending, rSync, rAsync, rSan, rUpg>>
regVars == <<regSites, apiProxies, socketProxies, rootProxyCache, deviceRoutes,
             instances, reqs, refreshes>>
upgVars == <<upgradeListeners, conn>>
shareVars == <<sockets>>
rewriteVars == <<rw>>
respVars == <<fwd>>
tunnelVars == <<tunnel, devReqs>>
cacheVars == <<now, cacheEntries, dbRows, lookups>>
updVars == <<updates>>
mwVars == <<mw>>
sessVars == <<sessions, siteSessions, assetCache, clock, issued, calls>>
moreVars == <<shareVars, rewriteVars, respVars, tunnelVars, cacheVars, updVars,
              mwVars, sessVars>>
notShare == <<rewriteVars, respVars, tunnelVars, cacheVars, updVars, mwVars, sessVars>>
notRewrite == <<shareVars, respVars, tunnelVars, cacheVars, updVars, mwVars, sessVars>>
notResp == <<shareVars, rewriteVars, tunnelVars, cacheVars, updVars, mwVars, sessVars>>
notTunnel == <<shareVars, rewriteVars, respVars, cacheVars, updVars, mwVars, sessVars>>
notCache == <<shareVars, rewriteVars, respVars, tunnelVars, updVars, mwVars, sessVars>>
notUpd == <<shareVars, rewriteVars, respVars, tunnelVars, cacheVars, mwVars, sessVars>>
notMw == <<shareVars, rewriteVars, respVars, tunnelVars, cacheVars, updVars, sessVars>>
notSess == <<shareVars, rewriteVars, respVars, tunnelVars, cacheVars, updVars, mwVars>>
coreVars == <<SITES, siteCache, resolveVars, regVars>>
vars == <<SITES, siteCache, resolveVars, regVars, upgVars, moreVars>>

---------------------------------------------------------------------------
(* Values *)

EmptyMap == [x \in {} |-> ""]

\* JS null / undefined where a site object is expected
NullSite == [kind |-> "null", name |-> "", neocores |-> EmptyMap, devices |-> EmptyMap]

\* A tenant record: site.name, site.neocores (id -> target), site.devices.deviceList
Site(name, neocores, devices) ==
  [kind |-> "site", name |-> name, neocores |-> neocores, devices |-> devices]

\* What obj["constructor"] yields on a plain object that has no own property of
\* that name: the inherited Object.prototype member, a truthy non-tenant value
\* (a function whose .name is "Object" and that has no neocores / devices).
InheritedMember ==
  [kind |-> "inherited", name |-> "Object", neocores |-> EmptyMap, devices |-> EmptyMap]

\* Property names every plain object inherits from Object.prototype
InheritedKeys == {"constructor"}

Truthy(site) == site.kind # "null"

Min(S) == CHOOSE x \in S : \A y \in S : x <= y

\* No string captured (JS null / undefined / "")
NoStr == ""

---------------------------------------------------------------------------
(* Helpers of routeManager *)

\* allSites[slug]: own entry, else inherited member, else undefined
SiteOf(allSites, slug) ==
  LET I == {i \in 1..Len(allSites) : allSites[i].name = slug} IN
  IF slug = NoStr THEN NullSite
  ELSE IF I # {} THEN allSites[Min(I)]
  ELSE IF slug \in InheritedKeys THEN InheritedMember
  ELSE NullSite

\* site?.neocores && typeof site.neocores === 'object' && Object.keys(...).length > 0
hasNeocores(site) == site.kind = "site" /\ DOMAIN site.neocores # {}

\* site.neocores[id] is truthy
HasNeocore(site, id) == site.kind = "site" /\ id \in DOMAIN site.neocores

\* Object.keys enumerates integer-like keys in ascending numeric order
KeyOrder == <<"0", "1">>
KeyRank(k) == Min({i \in 1..Len(KeyOrder) : KeyOrder[i] = k})

\* Object.keys(site.neocores || {})[0]
FirstNeocoreId(site) ==
  IF DOMAIN site.neocores = {} THEN NoStr
  ELSE CHOOSE n \in DOMAIN site.neocores :
         \A m \in DOMAIN site.neocores : KeyRank(n) <= KeyRank(m)

\* Object.values(sites).find(s => hasNeocores(s))
FirstSiteWithNeocores(allSites) ==
  LET I == {i \in 1..Len(allSites) : hasNeocores(allSites[i])} IN
  IF I = {} THEN NullSite ELSE allSites[Min(I)]

\* /^\/vpn\/([^\/]+)\/neocore\/([^\/]+)(\/|$|\?)/ on a path
getSiteAndNeocoreFromPath(url) ==
  IF Len(url) >= 4 /\ url[1] = "vpn" /\ url[2] # "" /\ url[3] = "neocore" /\ url[4] # ""
  THEN [ok |-> TRUE, siteSlug |-> url[2], neocoreId |-> url[4]]
  ELSE [ok |-> FALSE, siteSlug |-> NoStr, neocoreId |-> NoStr]

\* /^\/vpn\/([^\/]+)\// on a path: the slug segment must be followed by "/"
UrlSiteSlug(url) ==
  IF Len(url) >= 3 /\ url[1] = "vpn" /\ url[2] # "" THEN url[2] ELSE NoStr

\* /\/vpn\/([^\/]+)\// anywhere in a header value (leftmost match)
HeaderSiteSlug(h) ==
  LET I == {i \in 1..Len(h) : i + 2 <= Len(h) /\ h[i] = "vpn" /\ h[i+1] # ""} IN
  IF I = {} THEN NoStr ELSE h[Min(I) + 1]

\* /\/vpn\/([^\/]+)\/neocore\/([^\/]+)(\/|$|\?)/ anywhere in the Referer: group 2
getNeocoreIdFromReferer(r) ==
  LET I == {i \in 1..Len(r) : i + 3 <= Len(r) /\ r[i] = "vpn" /\ r[i+1] # ""
                                /\ r[i+2] = "neocore" /\ r[i+3] # ""} IN
  IF I = {} THEN NoStr ELSE r[Min(I) + 3]

\* Cookie values that carry leading white space, and what String.trim() makes of them
Padded == {" s1"}
Trim(v) == IF v = " s1" THEN "s1" ELSE v

\* the text "<name>=" occurs at the pair: the pattern is not anchored, so a cookie
\* whose name merely ends in <name> matches as well
NameMatches(k, name) == k = name \/ k = "x-" \o name

\* /<name>=([^;]+)/ then .trim(): first pair whose value is not empty
CookieLoose(cookie, name) ==
  LET I == {i \in 1..Len(cookie) : NameMatches(cookie[i].k, name) /\ cookie[i].v # ""} IN
  IF I = {} THEN NoStr ELSE Trim(cookie[Min(I)].v)

\* /<name>=([^;,\s]+)/ then .trim(): the value must start with a non-blank character
CookieStrict(cookie, name) ==
  LET I == {i \in 1..Len(cookie) : NameMatches(cookie[i].k, name) /\ cookie[i].v # ""
                                     /\ cookie[i].v \notin Padded} IN
  IF I = {} THEN NoStr ELSE cookie[Min(I)].v

getNeocoreIdFromCookie(r) == CookieStrict(r.cookie, "vpn-neocore")

---------------------------------------------------------------------------
(* Tenant Store (siteCacheService) *)

\* lookupSiteBySlug: every path ends in null.  No rows -> null; rows found ->
\* the transformer is called under a name the module never binds, the
\* ReferenceError is caught and null is returned.
lookupSiteBySlug(slug) == NullSite

\* getSiteBySlug: the value returned
getSiteBySlug(cache, slug) ==
  IF slug = NoStr THEN NullSite
  ELSE IF slug \in DOMAIN cache THEN cache[slug]
  ELSE lookupSiteBySlug(slug)

\* getSiteBySlug: the cache afterwards (a miss stores the lookup's result)
CacheAfterGet(cache, slug) ==
  IF slug = NoStr \/ slug \in DOMAIN cache THEN cache
  ELSE [s \in DOMAIN cache \cup {slug} |->
          IF s = slug THEN lookupSiteBySlug(slug) ELSE cache[s]]

---------------------------------------------------------------------------
(* Resolvers *)

\* detectSite, lines 44-63: the slug of the first signal that parses
DetectSiteSlug(r) ==
  LET pathInfo == getSiteAndNeocoreFromPath(r.url)
      s1 == IF pathInfo.ok THEN pathInfo.siteSlug ELSE NoStr
      s2 == IF s1 = NoStr THEN HeaderSiteSlug(r.referer) ELSE s1
      s3 == IF s2 = NoStr THEN HeaderSiteSlug(r.origin) ELSE s2
      s4 == IF s3 = NoStr /\ r.cookie # <<>> THEN CookieLoose(r.cookie, "vpn-site") ELSE s3
  IN s4

\* detectSiteSync, lines 80-99
detectSiteSync(r, allSites) ==
  LET pathInfo == getSiteAndNeocoreFromPath(r.url) IN
  IF pathInfo.ok /\ Truthy(SiteOf(allSites, pathInfo.siteSlug))
    THEN SiteOf(allSites, pathInfo.siteSlug)
  ELSE IF UrlSiteSlug(r.url) # NoStr THEN SiteOf(allSites, UrlSiteSlug(r.url))
  ELSE IF HeaderSiteSlug(r.referer) # NoStr THEN SiteOf(allSites, HeaderSiteSlug(r.referer))
  ELSE IF HeaderSiteSlug(r.origin) # NoStr THEN SiteOf(allSites, HeaderSiteSlug(r.origin))
  ELSE IF r.cookie # <<>> /\ CookieLoose(r.cookie, "vpn-site") # NoStr
    THEN SiteOf(allSites, CookieLoose(r.cookie, "vpn-site"))
  ELSE NullSite

\* detectSiteAndNeocore, lines 106-119: the slug and the neocore id picked
SanSlug(r) ==
  LET pathInfo == getSiteAndNeocoreFromPath(r.url)
      s1 == IF pathInfo.ok THEN pathInfo.siteSlug ELSE NoStr
      s2 == IF s1 = NoStr THEN HeaderSiteSlug(r.referer) ELSE s1
      s3 == IF s2 = NoStr /\ r.cookie # <<>> THEN CookieLoose(r.cookie, "vpn-site") ELSE s2
  IN s3

SanNeocoreId(r) ==
  LET pathInfo == getSiteAndNeocoreFromPath(r.url)
      n1 == IF pathInfo.ok THEN pathInfo.neocoreId ELSE NoStr
      n2 == IF n1 = NoStr THEN getNeocoreIdFromReferer(r.referer) ELSE n1
      n3 == IF n2 = NoStr THEN getNeocoreIdFromCookie(r) ELSE n2
  IN n3

\* detectSiteAndNeocore, lines 125-126: the binding for the site object found
NoBinding == [ok |-> FALSE, site |-> NullSite, neocoreId |-> NoStr]
SanResult(site, neocoreId) ==
  IF ~Truthy(site) \/ ~hasNeocores(site) \/ ~HasNeocore(site, neocoreId) THEN NoBinding
  ELSE [ok |-> TRUE, site |-> site, neocoreId |-> neocoreId]

---------------------------------------------------------------------------
(* Upgrade coordinator: resolution of the target (server.on('upgrade')) *)

\* url.includes('/socket.io')
IncludesSocketIo(url) == \E i \in 1..Len(url) : url[i] = "socket.io"

\* let targetSite = null; let targetNeocoreId = null
UpgStart == [site |-> NullSite, id |-> NoStr, used |-> <<>>]

\* a coordinator that does not look at the path
PathStageIgnored(st, r, sites) == [st EXCEPT !.used = Append(st.used, "path")]

\* a coordinator that reads the cookies whatever the path yielded
CookieStageUnguarded(st, r, sites) ==
  LET siteMatch == CookieStrict(r.cookie, "vpn-site")
      neocoreMatch == CookieStrict(r.cookie, "vpn-neocore") IN
  [site |-> IF siteMatch # NoStr THEN SiteOf(sites, Trim(siteMatch)) ELSE st.site,
   id |-> IF neocoreMatch # NoStr THEN Trim(neocoreMatch) ELSE st.id,
   used |-> Append(st.used, "cookie")]

\* lines 467-471: the path-embedded tenant and neocore id
PathStage(st, r, sites) ==
  LET pathInfo == getSiteAndNeocoreFromPath(r.url) IN
  IF pathInfo.ok
  THEN [site |-> SiteOf(sites, pathInfo.siteSlug), id |-> pathInfo.neocoreId,
        used |-> Append(st.used, "path")]
  ELSE [st EXCEPT !.used = Append(st.used, "path")]

\* lines 472-478: the vpn-site / vpn-neocore cookies
CookieStage(st, r, sites) ==
  IF ~Truthy(st.site) \/ st.id = NoStr
  THEN LET siteMatch == CookieStrict(r.cookie, "vpn-site")
           neocoreMatch == CookieStrict(r.cookie, "vpn-neocore") IN
       [site |-> IF siteMatch # NoStr THEN SiteOf(sites, Trim(siteMatch)) ELSE st.site,
        id |-> IF neocoreMatch # NoStr THEN Trim(neocoreMatch) ELSE st.id,
        used |-> Append(st.used, "cookie")]
  ELSE st

\* line 479: if (!targetSite) targetSite = detectSiteSync(req, currentSites)
SyncStage(st, r, sites) ==
  IF ~Truthy(st.site)
  THEN [st EXCEPT !.site = detectSiteSync(r, sites), !.used = Append(st.used, "sync")]
  ELSE st

\* line 480: a tenant without a neocore id gets its first neocore
DefaultIdStage(st) ==
  IF Truthy(st.site) /\ st.id = NoStr
  THEN [st EXCEPT !.id = FirstNeocoreId(st.site)]
  ELSE st

\* lines 481-484: the first tenant that has a neocore
FallbackStage(st, sites) ==
  IF ~Truthy(st.site)
  THEN LET f == FirstSiteWithNeocores(sites) IN
       [site |-> f, id |-> IF Truthy(f) THEN FirstNeocoreId(f) ELSE st.id,
        used |-> Append(st.used, "fallback")]
  ELSE st

\* line 486: the negation of the condition under which the socket is destroyed
UpgResolved(st) ==
  Truthy(st.site) /\ hasNeocores(st.site) /\ st.id # NoStr /\ HasNeocore(st.site, st.id)

\* lines 463-486 as a whole, keeping every intermediate stage
UpgradeResolve(r, sites) ==
  LET p == PathStage(UpgStart, r, sites)
      c == CookieStage(p, r, sites)
      s == SyncStage(c, r, sites)
      d == DefaultIdStage(s)
      f == FallbackStage(d, sites)
  IN [handled |-> TRUE, path |-> p, cookie |-> c, sync |-> s, dflt |-> d, final |-> f,
      ok |-> UpgResolved(f)]

NotHandled ==
  [handled |-> FALSE, path |-> UpgStart, cookie |-> UpgStart, sync |-> UpgStart,
   dflt |-> UpgStart, final |-> UpgStart, ok |-> FALSE]

---------------------------------------------------------------------------
(* Inputs *)

PathSlugs == {"s1", "s2", "zz", "constructor"}
NeocoreIds == {"0", "1"}

Urls ==
  {<<"vpn", s, "neocore", n>> \o t : s \in PathSlugs, n \in NeocoreIds,
                                      t \in {<<"api", "x">>, <<"socket.io", "">>}}
  \cup {<<"vpn", "s1", "devices", "d1", "x">>, <<"vpn", "s2">>,
        <<"api", "x">>, <<"socket.io", "">>, <<"logo.png">>}

Referers ==
  {<<"vpn", s, "neocore", n, "page">> : s \in {"s1", "s2", "zz"}, n \in NeocoreIds}
  \cup {<<>>, <<"vpn", "s2">>, <<"vpn", "s1", "devices", "d1", "">>}

Origins == {<<>>, <<"vpn", "s2", "">>}

Cookies ==
  {<<>>, <<[k |-> "sid", v |-> "s1"]>>,
   <<[k |-> "vpn-site", v |-> "s1"]>>,
   <<[k |-> "vpn-site", v |-> "zz"]>>,
   <<[k |-> "vpn-site", v |-> " s1"], [k |-> "vpn-neocore", v |-> "1"]>>,
   <<[k |-> "vpn-site", v |-> "s2"], [k |-> "vpn-neocore", v |-> "0"]>>,
   <<[k |-> "x-vpn-site", v |-> "s2"], [k |-> "vpn-site", v |-> "s1"]>>}

Requests == [url : Urls, referer : Referers, origin : Origins, cookie : Cookies]

S1 == Site("s1", ("0" :> "http://10.9.0.5:80" @@ "1" :> "http://10.9.0.6:80"), EmptyMap)
S1b == Site("s1", ("0" :> "http://10.9.0.5:80"), EmptyMap)
S2 == Site("s2", ("0" :> "http://10.9.0.2:80"), EmptyMap)
S3 == Site("s3", EmptyMap, ("d1" :> "http://172.16.4.100:80"))

\* configurations the process can have been started with
SiteConfigs == {<<S1, S2>>, <<S3, S1b>>, <<S1b>>}

\* contents of the preloaded Tenant Store cache
CacheConfigs == {EmptyMap, ("s2" :> S2), ("s2" :> S2 @@ "zz" :> NullSite)}

---------------------------------------------------------------------------
(* Resolver runs: every resolver applied to one request *)

InitResolve ==
  /\ req \in Requests
  /\ pc = "start"
  /\ pending = NoStr
  /\ rSync = NullSite
  /\ rAsync = NullSite
  /\ rSan = NoBinding
  /\ rUpg = NotHandled

\* detectSiteSync(req, allSites)
RunDetectSiteSync ==
  /\ pc = "start"
  /\ rSync' = detectSiteSync(req, SITES)
  /\ pc' = "sync-done"
  /\ UNCHANGED <<SITES, siteCache, req, pending, rAsync, rSan, rUpg>>
  /\ UNCHANGED <<regVars, upgVars, moreVars>>

\* detectSite up to its return or its await (lines 43-68)
DetectSiteBegin ==
  /\ pc = "sync-done"
  /\ LET slug == DetectSiteSlug(req) IN
     IF slug = NoStr THEN
       /\ rAsync' = NullSite /\ pc' = "async-done" /\ pending' = NoStr
     ELSE IF Truthy(SiteOf(SITES, slug)) THEN
       /\ rAsync' = SiteOf(SITES, slug) /\ pc' = "async-done" /\ pending' = NoStr
     ELSE
       /\ rAsync' = rAsync /\ pc' = "async-await" /\ pending' = slug
  /\ UNCHANGED <<SITES, siteCache, req, rSync, rSan, rUpg>>
  /\ UNCHANGED <<regVars, upgVars, moreVars>>

\* detectSite resumed with getSiteBySlug's value (lines 68-69)
DetectSiteResume ==
  /\ pc = "async-await"
  /\ rAsync' = getSiteBySlug(siteCache, pending)
  /\ siteCache' = CacheAfterGet(siteCache, pending)
  /\ pending' = NoStr
  /\ pc' = "async-done"
  /\ UNCHANGED <<SITES, req, rSync, rSan, rUpg>>
  /\ UNCHANGED <<regVars, upgVars, moreVars>>

\* detectSiteAndNeocore up to its return or its await (lines 105-123)
SanBegin ==
  /\ pc = "async-done"
  /\ LET slug == SanSlug(req)
         id == SanNeocoreId(req) IN
     IF slug = NoStr \/ id = NoStr THEN
       /\ rSan' = NoBinding /\ pc' = "san-done" /\ pending' = NoStr
     ELSE IF Truthy(SiteOf(SITES, slug)) THEN
       /\ rSan' = SanResult(SiteOf(SITES, slug), id) /\ pc' = "san-done" /\ pending' = NoStr
     ELSE
       /\ rSan' = rSan /\ pc' = "san-await" /\ pending' = slug
  /\ UNCHANGED <<SITES, siteCache, req, rSync, rAsync, rUpg>>
  /\ UNCHANGED <<regVars, upgVars, moreVars>>

\* detectSiteAndNeocore resumed with getSiteBySlug's value (lines 123-126)
SanResume ==
  /\ pc = "san-await"
  /\ rSan' = SanResult(getSiteBySlug(siteCache, pending), SanNeocoreId(req))
  /\ siteCache' = CacheAfterGet(siteCache, pending)
  /\ pending' = NoStr
  /\ pc' = "san-done"
  /\ UNCHANGED <<SITES, req, rSync, rAsync, rUpg>>
  /\ UNCHANGED <<regVars, upgVars, moreVars>>

\* the coordinator's resolution of req as an upgrade request (lines 459-486)
UpgradeResolveRun ==
  /\ pc = "san-done"
  /\ rUpg' = IF IncludesSocketIo(req.url) THEN UpgradeResolve(req, SITES) ELSE NotHandled
  /\ pc' = "done"
  /\ UNCHANGED <<SITES, siteCache, req, pending, rSync, rAsync, rSan>>
  /\ UNCHANGED <<regVars, upgVars, moreVars>>

NextResolve ==
  \/ RunDetectSiteSync
  \/ DetectSiteBegin
  \/ DetectSiteResume
  \/ SanBegin
  \/ SanResume
  \/ UpgradeResolveRun

\* no gateway registered: the resolvers are exercised on their own
RegistryIdle ==
  /\ regSites = <<>>
  /\ apiProxies = EmptyMap
  /\ socketProxies = EmptyMap
  /\ rootProxyCache = EmptyMap
  /\ deviceRoutes = EmptyMap
  /\ instances = {}
  /\ reqs = <<>>
  /\ refreshes = 0

\* no upgrade request under way
NoConn ==
  [r |-> [url |-> <<>>, referer |-> <<>>, origin |-> <<>>, cookie |-> <<>>],
   received |-> [url |-> <<>>, referer |-> <<>>, origin |-> <<>>, cookie |-> <<>>],
   emitted |-> FALSE, destroyed |-> FALSE, runs |-> <<>>, wsCalls |-> <<>>]

UpgradeIdle ==
  /\ upgradeListeners = <<>>
  /\ conn = NoConn

ShareIdle == sockets = <<>>

RewriteIdle == rw = <<>>

RespIdle == fwd = <<>>

TunnelIdle == tunnel = <<>> /\ devReqs = <<>>

CacheIdle == now = 0 /\ cacheEntries = <<>> /\ dbRows = {} /\ lookups = <<>>

UpdIdle == updates = <<>>

MwIdle == mw = <<>>

SessIdle ==
  /\ sessions = <<>> /\ siteSessions = <<>> /\ assetCache = <<>>
  /\ clock = 0 /\ issued = 0 /\ calls = <<>>

MoreIdle ==
  /\ ShareIdle /\ RewriteIdle /\ RespIdle /\ TunnelIdle /\ CacheIdle /\ UpdIdle
  /\ MwIdle /\ SessIdle

Init ==
  /\ SITES \in SiteConfigs
  /\ siteCache \in CacheConfigs
  /\ InitResolve
  /\ RegistryIdle
  /\ UpgradeIdle
  /\ UpdIdle
  /\ MwIdle
  /\ SessIdle
  /\ MoreIdle

Spec == Init /\ [][NextResolve]_vars

---------------------------------------------------------------------------
(* Properties of tenant resolution *)

SyncDone == pc # "start"
AsyncDone == pc \in {"async-done", "san-await", "san-done", "done"}
SanDone == pc \in {"san-done", "done"}
UpgDone == pc = "done"

\* the tenant configured under slug (an own entry of SITES), if any
OwnSite(slug) ==
  LET I == {i \in 1..Len(SITES) : SITES[i].name = slug} IN
  IF slug = NoStr \/ I = {} THEN NullSite ELSE SITES[Min(I)]

\* the tenant the Tenant Store holds under slug, if any
StoredSite(slug) ==
  IF slug \in DOMAIN siteCache THEN siteCache[slug] ELSE NullSite

\* the tenant known under slug: configured, else held by the Tenant Store
KnownSite(slug) == IF Truthy(OwnSite(slug)) THEN OwnSite(slug) ELSE StoredSite(slug)

\* the slug each signal names, in priority order: path, Referer, Origin, cookie
PathSlug(r) == getSiteAndNeocoreFromPath(r.url).siteSlug
SignalSlugs(r, pathSlug) ==
  <<pathSlug, HeaderSiteSlug(r.referer), HeaderSiteSlug(r.origin),
    CookieLoose(r.cookie, "vpn-site")>>

FirstResolvingOwn(sig) ==
  LET I == {i \in 1..Len(sig) : Truthy(OwnSite(sig[i]))} IN
  IF I = {} THEN NullSite ELSE OwnSite(sig[Min(I)])

FirstResolvingKnown(sig) ==
  LET I == {i \in 1..Len(sig) : Truthy(KnownSite(sig[i]))} IN
  IF I = {} THEN NullSite ELSE KnownSite(sig[Min(I)])

\* C1: detectSite and detectSiteSync return the tenant named by the first signal,
\* in the order path, Referer, Origin, cookie, that both parses and resolves to a
\* known tenant; a signal that parses but names an unknown tenant does not end
\* the search.
C1_FirstResolvingSignalWins ==
  /\ SyncDone => rSync = FirstResolvingOwn(SignalSlugs(req, UrlSiteSlug(req.url)))
  /\ AsyncDone => rAsync = FirstResolvingKnown(SignalSlugs(req, PathSlug(req)))

\* the request path is /vpn/{S}/neocore/{N}/... with S a tenant known to the
\* resolver (through the record it sees: the configured one, else the stored
\* one) and N one of that record's neocores
PathBinding(r, site) ==
  /\ getSiteAndNeocoreFromPath(r.url).ok
  /\ site.kind = "site"
  /\ site.name = PathSlug(r)
  /\ HasNeocore(site, getSiteAndNeocoreFromPath(r.url).neocoreId)

AllSlugs(r) ==
  {UrlSiteSlug(r.url), PathSlug(r), HeaderSiteSlug(r.referer), HeaderSiteSlug(r.origin),
   CookieLoose(r.cookie, "vpn-site")} \ {NoStr}

\* C3: a request whose signals reference only slugs that are neither configured
\* nor known to the Tenant Store resolves to null in detectSite, detectSiteSync
\* and detectSiteAndNeocore, and no resolver returns a tenant whose slug differs
\* from the slug extracted from the signal.
C3_UnknownSlugUnresolved ==
  /\ (AllSlugs(req) # {} /\ \A s \in AllSlugs(req) : ~Truthy(KnownSite(s)))
       => /\ SyncDone => rSync = NullSite
          /\ AsyncDone => rAsync = NullSite
          /\ SanDone => ~rSan.ok
  /\ (SyncDone /\ Truthy(rSync)) => rSync.name \in AllSlugs(req)
  /\ (AsyncDone /\ Truthy(rAsync)) => rAsync.name \in AllSlugs(req)
  /\ (SanDone /\ rSan.ok) => rSan.site.name \in AllSlugs(req)

\* the Tenant Store holds no tenant beyond the configured ones
NoAdditionalTenants ==
  \A s \in DOMAIN siteCache : Truthy(siteCache[s]) => siteCache[s] = OwnSite(s)

\* C4: when the Tenant Store holds no additional tenants, detectSiteSync and
\* detectSite return the same tenant or both return unresolved.
C4_SyncAsyncAgree ==
  (AsyncDone /\ NoAdditionalTenants) => rSync = rAsync

\* the stages of the coordinator's resolution, in the order they are computed
UpgStages == <<rUpg.path, rUpg.cookie, rUpg.sync, rUpg.dflt, rUpg.final>>
UsedByUpg(source) == \E i \in 1..Len(rUpg.final.used) : rUpg.final.used[i] = source

---------------------------------------------------------------------------
(* Proxy registries and HTTP dispatch *)

MaxRequests == 2
MaxRefreshes == 1

\* `${site.name}:${neocoreId}`
ProxyKey(site, neocoreId) == <<site.name, ":", neocoreId>>

\* the key a device proxy serves: tenant, "devices", deviceId
DeviceKey(site, deviceId) == <<site.name, "devices", deviceId>>

NoInst == [reg |-> "", key |-> <<>>, n |-> 0, target |-> ""]

\* a proxy constructor (createProxy, createProxyMiddleware): every call yields an
\* instance distinct from all earlier ones
NewInstance(insts, reg, key, target) ==
  [reg |-> reg, key |-> key,
   n |-> Cardinality({x \in insts : x.reg = reg /\ x.key = key}) + 1,
   target |-> target]

\* createDeviceProxy(site, deviceId, deviceConfig): constructs a forwarding
\* instance for the device's target
createDeviceProxy(insts, site, deviceId, deviceConfig) ==
  NewInstance(insts, "device", DeviceKey(site, deviceId), deviceConfig)

\* site.devices?.deviceList?.[deviceId] is truthy
HasDevice(site, deviceId) == site.kind = "site" /\ deviceId \in DOMAIN site.devices

\* the (site, neocoreId) pairs Object.values(allSites) / Object.entries(site.neocores) visit
NeocorePairs(sites) ==
  {<<i, n>> \in (1..Len(sites)) \X NeocoreIds : hasNeocores(sites[i]) /\ n \in DOMAIN sites[i].neocores}

DevicePairs(sites) ==
  {<<i, d>> \in (1..Len(sites)) \X {"d0", "d1"} : HasDevice(sites[i], d)}

\* lines 254-295: one apiProxy / socketProxy per configured (site, neocore)
RegisteredProxies(sites, reg) ==
  LET P == NeocorePairs(sites)
      K == {ProxyKey(sites[p[1]], p[2]) : p \in P}
      PairOf(k) == CHOOSE p \in P : ProxyKey(sites[p[1]], p[2]) = k
  IN [k \in K |-> NewInstance({}, reg, k, sites[PairOf(k)[1]].neocores[PairOf(k)[2]])]

\* lines 675-693: one device proxy per configured device, mounted on its path
RegisteredDevices(sites) ==
  LET P == DevicePairs(sites)
      K == {DeviceKey(sites[p[1]], p[2]) : p \in P}
      PairOf(k) == CHOOSE p \in P : DeviceKey(sites[p[1]], p[2]) = k
  IN [k \in K |-> createDeviceProxy({}, sites[PairOf(k)[1]], PairOf(k)[2],
                                    sites[PairOf(k)[1]].devices[PairOf(k)[2]])]

Range(f) == {f[x] : x \in DOMAIN f}

\* a registry that answers every lookup with a miss
RegistryNeverHas(registry, key) == FALSE

\* Map.get(key) is truthy / Map.has(key)
RegistryHas(registry, key) == key \in DOMAIN registry

\* let p = registry.get(key); if (!p) { p = create(target); registry.set(key, p) }
GetOrCreate(registry, insts, reg, key, target) ==
  IF RegistryHas(registry, key)
  THEN [registry |-> registry, insts |-> insts, proxy |-> registry[key]]
  ELSE LET p == NewInstance(insts, reg, key, target) IN
       [registry |-> [k \in DOMAIN registry \cup {key} |->
                        IF k = key THEN p ELSE registry[k]],
        insts |-> insts \cup {p}, proxy |-> p]

\* Express mount: req.url with the first n segments of the mount path removed
StripMount(url, n) == SubSeq(url, n + 1, Len(url))

NeocorePath(url, tail) ==
  /\ Len(url) >= 5 /\ url[1] = "vpn" /\ url[2] # "" /\ url[3] = "neocore"
  /\ url[4] # "" /\ url[5] = tail

DevicePath(url) ==
  Len(url) >= 4 /\ url[1] = "vpn" /\ url[2] # "" /\ url[3] = "devices" /\ url[4] # ""

\* referer.includes('/neocore') || req.headers.cookie?.includes('vpn-site')
isNeocoreRequest(r) ==
  \/ \E i \in 2..Len(r.referer) : r.referer[i] = "neocore"
  \/ \E i \in 1..Len(r.cookie) : NameMatches(r.cookie[i].k, "vpn-site")

\* the target the current configuration gives a key (NoStr when it gives none)
ConfiguredTarget(sites, key) ==
  LET site == SiteOf(sites, key[1]) IN
  IF Len(key) = 1
  THEN IF hasNeocores(site) THEN site.neocores[FirstNeocoreId(site)] ELSE NoStr
  ELSE IF key[2] = ":" /\ HasNeocore(site, key[3]) THEN site.neocores[key[3]]
  ELSE IF key[2] = "devices" /\ HasDevice(site, key[3]) THEN site.devices[key[3]]
  ELSE NoStr

\* res.status(status).json({ error }) ; status 200 with no error for a served file
NoAnswer == [status |-> 0, error |-> ""]
Answer(status, error) == [status |-> status, error |-> error]

NewReq(r) ==
  [r |-> r, st |-> "new", h |-> "", pending |-> NoStr, site |-> NullSite, id |-> NoStr,
   via |-> NoInst, configured |-> NoStr, gen |-> 0, raced |-> FALSE,
   answer |-> NoAnswer, decidedOnPromise |-> FALSE, apiPath |-> <<>>]

\* a proxy that hands the backend the path it was asked for
ApiPathKept(key, url) == url

\* pathRewrite { '^/vpn/<site>/neocore/<id>/api': '/api' } of the proxy made for
\* key (lines 284-288, 313-317, 349)
ApiPathRewrite(key, url) ==
  IF Len(url) >= 5 /\ SubSeq(url, 1, 5) = <<"vpn", key[1], "neocore", key[3], "api">>
  THEN <<"api">> \o SubSeq(url, 6, Len(url))
  ELSE url

\* the path an api proxy requests from its backend: the middleware rewrites the
\* request's original URL (req.originalUrl), whatever the handler wrote to req.url
BackendApiPath(proxy, originalUrl) ==
  IF proxy.reg = "api" THEN ApiPathRewrite(proxy.key, originalUrl) ELSE <<>>

\* the request has been handed to proxy (req, res, next)
Forwarded(q, h, proxy, i) ==
  [q EXCEPT !.st = "done", !.h = h, !.via = proxy, !.pending = NoStr,
            !.apiPath = BackendApiPath(proxy, q.r.url),
            !.configured = ConfiguredTarget(SITES, proxy.key),
            !.gen = refreshes,
            !.raced = \E j \in DOMAIN reqs : j # i /\ reqs[j].st = "await"]

\* next() or a 404 answer: no proxy involved
NotForwarded(q, h) == [q EXCEPT !.st = "done", !.h = h, !.pending = NoStr]

Suspended(q, h, slug, site, id) ==
  [q EXCEPT !.st = "await", !.h = h, !.pending = slug, !.site = site, !.id = id]

\* the handler answered by itself (a file or an error body); no proxy involved
Answered(q, h, answer) == [NotForwarded(q, h) EXCEPT !.answer = answer]

\* requests the gateway serves
Req(url, referer, cookie) == [url |-> url, referer |-> referer, origin |-> <<>>, cookie |-> cookie]

RegRequests ==
  {Req(<<"api", "x">>, <<"vpn", "s2", "neocore", "0", "page">>, <<>>),
   Req(<<"api", "x">>, <<>>, <<[k |-> "vpn-site", v |-> "s1"], [k |-> "vpn-neocore", v |-> "0"]>>),
   Req(<<"api", "x">>, <<"vpn", "s1", "neocore", "0", "page">>, <<>>),
   Req(<<"api", "x">>, <<>>, <<>>),
   Req(<<"vpn", "s2", "neocore", "0", "api", "x">>, <<>>, <<>>),
   Req(<<"vpn", "s2", "neocore", "0", "socket.io", "">>, <<>>, <<>>),
   Req(<<"vpn", "s1", "neocore", "0", "api", "x">>, <<>>, <<>>),
   Req(<<"vpn", "s3", "devices", "d1", "x">>, <<>>, <<>>),
   Req(<<"vpn", "s1", "devices", "d0", "x">>, <<>>, <<>>),
   Req(<<"static", "js", "main.js">>, <<"vpn", "s1", "neocore", "0", "page">>, <<>>),
   Req(<<"logo.png">>, <<"vpn", "s9", "neocore", "0", "page">>, <<>>),
   Req(<<"vpn", "s9", "neocore", "0", "x">>, <<>>, <<>>),
   Req(<<"vpn", "s1", "neocore", "0", "x">>, <<>>, <<>>)}

S1d == Site("s1", ("0" :> "http://10.9.0.5:80" @@ "1" :> "http://10.9.0.6:80"),
            ("d0" :> "http://172.16.4.90:80"))
S1moved == Site("s1", ("0" :> "http://10.9.0.7:80" @@ "1" :> "http://10.9.0.6:80"),
                ("d0" :> "http://172.16.4.90:80"))

\* configurations a refresh can deliver (an empty one is ignored)
RefreshConfigs == {<<S1moved, S2>>, <<S1d, S3>>, <<>>}

\* Tenant Store contents while the gateway runs
RegCacheConfigs == {("s2" :> S2)}

\* registerAllRoutes(app, () => SITES, server) has run on the start-up configuration
InitRegistry ==
  /\ regSites = SITES
  /\ apiProxies = RegisteredProxies(SITES, "api")
  /\ socketProxies = RegisteredProxies(SITES, "socket")
  /\ rootProxyCache = EmptyMap
  /\ deviceRoutes = RegisteredDevices(SITES)
  /\ instances = Range(RegisteredProxies(SITES, "api"))
                   \cup Range(RegisteredProxies(SITES, "socket"))
                   \cup Range(RegisteredDevices(SITES))
  /\ reqs \in [1..MaxRequests -> {NewReq(r) : r \in RegRequests}]
  /\ refreshes = 0

ResolveIdle ==
  /\ req = Req(<<>>, <<>>, <<>>)
  /\ pc = "idle"
  /\ pending = NoStr
  /\ rSync = NullSite
  /\ rAsync = NullSite
  /\ rSan = NoBinding
  /\ rUpg = NotHandled

\* the routes mounted on a literal path at registration (lines 327-334, 682-684)
StaticKey(url) ==
  IF DevicePath(url) THEN <<url[2], "devices", url[4]>>
  ELSE IF NeocorePath(url, "api") \/ NeocorePath(url, "socket.io") THEN <<url[2], ":", url[4]>>
  ELSE <<>>

StaticProxy(url) ==
  LET k == StaticKey(url) IN
  IF DevicePath(url) /\ k \in DOMAIN deviceRoutes THEN deviceRoutes[k]
  ELSE IF NeocorePath(url, "api") /\ k \in DOMAIN RegisteredProxies(regSites, "api")
    THEN apiProxies[k]
  ELSE IF NeocorePath(url, "socket.io") /\ k \in DOMAIN RegisteredProxies(regSites, "socket")
    THEN socketProxies[k]
  ELSE NoInst

\* app.use(`/vpn/${site.name}/neocore/${neocoreId}/api`, apiProxies.get(key)) and the
\* like: a request on a mounted path goes to the instance mounted there
StaticRoute(i) ==
  /\ reqs[i].st = "new"
  /\ StaticProxy(reqs[i].r.url) # NoInst
  /\ reqs' = [reqs EXCEPT ![i] = Forwarded(@, "static", StaticProxy(reqs[i].r.url), i)]
  /\ UNCHANGED <<SITES, siteCache, resolveVars, regSites, apiProxies, socketProxies,
                 rootProxyCache, deviceRoutes, instances, refreshes>>
  /\ UNCHANGED <<upgVars, moreVars>>

\* app.use('/api', async ...) up to `await detectSiteAndNeocore` (lines 298-305)
RootApiBegin(i) ==
  /\ reqs[i].st = "new"
  /\ Len(reqs[i].r.url) >= 1 /\ reqs[i].r.url[1] = "api"
  /\ LET r == [reqs[i].r EXCEPT !.url = StripMount(@, 1)]
         slug == SanSlug(r)
         id == SanNeocoreId(r) IN
     reqs' = [reqs EXCEPT ![i] =
       IF ~isNeocoreRequest(r) THEN NotForwarded(@, "rootApi")
       ELSE IF slug = NoStr \/ id = NoStr THEN Suspended(@, "rootApi", NoStr, NullSite, id)
       ELSE IF Truthy(SiteOf(SITES, slug)) THEN Suspended(@, "rootApi", NoStr, SiteOf(SITES, slug), id)
       ELSE Suspended(@, "rootApi", slug, NullSite, id)]
  /\ UNCHANGED <<SITES, siteCache, resolveVars, regSites, apiProxies, socketProxies,
                 rootProxyCache, deviceRoutes, instances, refreshes>>
  /\ UNCHANGED <<upgVars, moreVars>>

\* the root /api handler resumed with the detected binding (lines 305-323)
RootApiResume(i) ==
  /\ reqs[i].st = "await" /\ reqs[i].h = "rootApi"
  /\ LET q == reqs[i]
         site == IF q.pending # NoStr THEN getSiteBySlug(siteCache, q.pending) ELSE q.site
         detected == SanResult(site, q.id) IN
     /\ siteCache' = IF q.pending # NoStr THEN CacheAfterGet(siteCache, q.pending) ELSE siteCache
     /\ IF ~detected.ok THEN
          /\ reqs' = [reqs EXCEPT ![i] = NotForwarded(@, "rootApi")]
          /\ UNCHANGED <<apiProxies, instances>>
        ELSE
          LET key == ProxyKey(detected.site, detected.neocoreId)
              g == GetOrCreate(apiProxies, instances, "api", key,
                               detected.site.neocores[detected.neocoreId]) IN
          /\ apiProxies' = g.registry
          /\ instances' = g.insts
          /\ reqs' = [reqs EXCEPT ![i] = Forwarded(@, "rootApi", g.proxy, i)]
  /\ UNCHANGED <<SITES, resolveVars, regSites, socketProxies, rootProxyCache,
                 deviceRoutes, refreshes>>
  /\ UNCHANGED <<upgVars, moreVars>>

\* the registry a dynamic neocore handler works on
RegistryOf(reg) == IF reg = "api" THEN apiProxies ELSE socketProxies
TailOf(reg) == IF reg = "api" THEN "api" ELSE "socket.io"

\* get-or-create of a dynamic neocore handler and the forward through the result
\* (lines 345-352 for api, 362-385 for socket.io)
DynServe(i, reg, site, neocoreId) ==
  LET g == GetOrCreate(RegistryOf(reg), instances, reg, ProxyKey(site, neocoreId),
                       site.neocores[neocoreId]) IN
  /\ apiProxies' = IF reg = "api" THEN g.registry ELSE apiProxies
  /\ socketProxies' = IF reg = "socket" THEN g.registry ELSE socketProxies
  /\ instances' = g.insts
  /\ reqs' = [reqs EXCEPT ![i] = Forwarded(@, reg, g.proxy, i)]

\* app.use('/vpn/:siteName/neocore/:neocoreId/api' | '/socket.io', async ...) up to
\* its await, or to its end when the current configuration has the neocore
DynNeocoreBegin(i, reg) ==
  /\ reqs[i].st = "new"
  /\ NeocorePath(reqs[i].r.url, TailOf(reg))
  /\ StaticProxy(reqs[i].r.url) = NoInst
  /\ LET siteName == reqs[i].r.url[2]
         neocoreId == reqs[i].r.url[4]
         site == SiteOf(SITES, siteName) IN
     IF HasNeocore(site, neocoreId)
     THEN DynServe(i, reg, site, neocoreId)
     ELSE /\ reqs' = [reqs EXCEPT ![i] = Suspended(@, reg, siteName, NullSite, neocoreId)]
          /\ UNCHANGED <<apiProxies, socketProxies, instances>>
  /\ UNCHANGED <<SITES, siteCache, resolveVars, regSites, rootProxyCache, deviceRoutes,
                 refreshes>>
  /\ UNCHANGED <<upgVars, moreVars>>

\* the dynamic neocore handler resumed with getSiteBySlug's value
DynNeocoreResume(i, reg) ==
  /\ reqs[i].st = "await" /\ reqs[i].h = reg
  /\ LET site == getSiteBySlug(siteCache, reqs[i].pending) IN
     IF HasNeocore(site, reqs[i].id)
     THEN DynServe(i, reg, site, reqs[i].id)
     ELSE /\ reqs' = [reqs EXCEPT ![i] = NotForwarded(@, reg)]
          /\ UNCHANGED <<apiProxies, socketProxies, instances>>
  /\ siteCache' = CacheAfterGet(siteCache, reqs[i].pending)
  /\ UNCHANGED <<SITES, resolveVars, regSites, rootProxyCache, deviceRoutes, refreshes>>
  /\ UNCHANGED <<upgVars, moreVars>>

\* lines 720-729: a proxy is made for this request and the request handed to it
DeviceServe(i, site, deviceId) ==
  LET proxy == createDeviceProxy(instances, site, deviceId, site.devices[deviceId]) IN
  /\ instances' = instances \cup {proxy}
  /\ reqs' = [reqs EXCEPT ![i] = Forwarded(@, "device", proxy, i)]

\* app.use('/vpn/:siteName/devices/:deviceId', async ...) up to its await, or to
\* its end when the current configuration has the device (lines 696-733)
DeviceBegin(i) ==
  /\ reqs[i].st = "new"
  /\ DevicePath(reqs[i].r.url)
  /\ StaticProxy(reqs[i].r.url) = NoInst
  /\ LET siteSlug == reqs[i].r.url[2]
         deviceId == reqs[i].r.url[4]
         site == SiteOf(SITES, siteSlug) IN
     IF HasDevice(site, deviceId)
     THEN DeviceServe(i, site, deviceId)
     ELSE /\ reqs' = [reqs EXCEPT ![i] = Suspended(@, "device", siteSlug, NullSite, deviceId)]
          /\ UNCHANGED instances
  /\ UNCHANGED <<SITES, siteCache, resolveVars, regSites, apiProxies, socketProxies,
                 rootProxyCache, deviceRoutes, refreshes>>
  /\ UNCHANGED <<upgVars, moreVars>>

\* the dynamic device handler resumed with getSiteBySlug's value
DeviceResume(i) ==
  /\ reqs[i].st = "await" /\ reqs[i].h = "device"
  /\ LET site == getSiteBySlug(siteCache, reqs[i].pending) IN
     IF HasDevice(site, reqs[i].id)
     THEN DeviceServe(i, site, reqs[i].id)
     ELSE /\ reqs' = [reqs EXCEPT ![i] = NotForwarded(@, "device")]
          /\ UNCHANGED instances
  /\ siteCache' = CacheAfterGet(siteCache, reqs[i].pending)
  /\ UNCHANGED <<SITES, resolveVars, regSites, apiProxies, socketProxies,
                 rootProxyCache, deviceRoutes, refreshes>>
  /\ UNCHANGED <<upgVars, moreVars>>

\* assetsService createRootProxy: the tenant of the Referer (else Origin), else the
\* first tenant with a neocore; in this service a tenant's neocore is its first one
RootAsset(i) ==
  /\ reqs[i].st = "new"
  /\ Len(reqs[i].r.url) >= 1 /\ reqs[i].r.url[1] = "static"
  /\ LET referer == IF reqs[i].r.referer # <<>> THEN reqs[i].r.referer ELSE reqs[i].r.origin
         detectedSite == SiteOf(regSites, HeaderSiteSlug(referer))
         site == IF hasNeocores(detectedSite) THEN detectedSite
                 ELSE FirstSiteWithNeocores(regSites) IN
     IF ~Truthy(site)
     THEN /\ reqs' = [reqs EXCEPT ![i] = NotForwarded(@, "root")]
          /\ UNCHANGED <<rootProxyCache, instances>>
     ELSE LET g == GetOrCreate(rootProxyCache, instances, "root", <<site.name>>,
                               site.neocores[FirstNeocoreId(site)]) IN
          /\ rootProxyCache' = g.registry
          /\ instances' = g.insts
          /\ reqs' = [reqs EXCEPT ![i] = Forwarded(@, "root", g.proxy, i)]
  /\ UNCHANGED <<SITES, siteCache, resolveVars, regSites, apiProxies, socketProxies,
                 deviceRoutes, refreshes>>
  /\ UNCHANGED <<upgVars, moreVars>>

\* what a call of an async function yields when it is not awaited: a Promise
\* object, which is truthy and is no tenant
PromiseObject == [kind |-> "promise", name |-> "", neocores |-> EmptyMap, devices |-> EmptyMap]

\* /^\/([^\/]+\.(png|jpg|jpeg|svg|ico|gif|webp))$/ on the path
ImageFiles == {"logo.png"}
IsRootImage(url) == Len(url) = 1 /\ url[1] \in ImageFiles

\* app.get(<root-level image>, (req, res) => ...) (lines 546-563): the handler is
\* not async and uses the value of detectSite(req, currentSites) as it is returned
RootImage(i, fileExists) ==
  /\ reqs[i].st = "new"
  /\ IsRootImage(reqs[i].r.url)
  /\ LET detected == PromiseObject
         site == IF Truthy(detected) THEN detected ELSE FirstSiteWithNeocores(SITES) IN
     reqs' = [reqs EXCEPT ![i] =
       [Answered(@, "rootImage",
                 IF ~Truthy(site) THEN Answer(404, "Site not found")
                 ELSE IF fileExists THEN Answer(200, "")
                 ELSE Answer(404, "Image not found"))
        EXCEPT !.decidedOnPromise = (site.kind = "promise")]]
  /\ UNCHANGED <<SITES, siteCache, resolveVars, regSites, apiProxies, socketProxies,
                 rootProxyCache, deviceRoutes, instances, refreshes>>
  /\ UNCHANGED <<upgVars, moreVars>>

\* the GET routes of a neocore's pages: the HTML route /vpn/:siteName/neocore/:neocoreId,
\* the :assetFile route and the catch-all (lines 516-533, 584-624), for paths that
\* are not under api, socket.io or static
NeocorePagePath(url) ==
  /\ Len(url) >= 4 /\ url[1] = "vpn" /\ url[2] # "" /\ url[3] = "neocore" /\ url[4] # ""
  /\ Len(url) >= 5 => url[5] \notin {"api", "socket.io", "static"}

\* a page route up to its await, or to its end when the current configuration
\* has the neocore
NeocorePageBegin(i) ==
  /\ reqs[i].st = "new"
  /\ NeocorePagePath(reqs[i].r.url)
  /\ LET siteName == reqs[i].r.url[2]
         neocoreId == reqs[i].r.url[4]
         site == SiteOf(SITES, siteName) IN
     reqs' = [reqs EXCEPT ![i] =
       IF HasNeocore(site, neocoreId) THEN Answered(@, "page", Answer(200, ""))
       ELSE Suspended(@, "page", siteName, NullSite, neocoreId)]
  /\ UNCHANGED <<SITES, siteCache, resolveVars, regSites, apiProxies, socketProxies,
                 rootProxyCache, deviceRoutes, instances, refreshes>>
  /\ UNCHANGED <<upgVars, moreVars>>

\* a page route resumed with getSiteBySlug's value
NeocorePageResume(i) ==
  /\ reqs[i].st = "await" /\ reqs[i].h = "page"
  /\ LET site == getSiteBySlug(siteCache, reqs[i].pending) IN
     reqs' = [reqs EXCEPT ![i] =
       IF HasNeocore(site, reqs[i].id) THEN Answered(@, "page", Answer(200, ""))
       ELSE Answered(@, "page", Answer(404, "Site or NeoCore not found"))]
  /\ siteCache' = CacheAfterGet(siteCache, reqs[i].pending)
  /\ UNCHANGED <<SITES, resolveVars, regSites, apiProxies, socketProxies,
                 rootProxyCache, deviceRoutes, instances, refreshes>>
  /\ UNCHANGED <<upgVars, moreVars>>

\* what getSiteConfigurations / refreshSiteConfigurations hand to the update
\* (part_004 lines 125-152): the sites of the rows, or null when there are no
\* rows or the query failed; undefined and {} are the other arguments the claim names
RefreshArgs ==
  {[kind |-> "object", sites |-> c] : c \in RefreshConfigs}
    \cup {[kind |-> "null", sites |-> <<>>], [kind |-> "undefined", sites |-> <<>>]}

\* an update that accepts whatever it is given
AcceptsAnything(newSites) == newSites.kind \in {"object", "null", "undefined"}

\* newSites && Object.keys(newSites).length > 0 (index.js line 39)
AcceptsUpdate(newSites) == newSites.kind = "object" /\ Len(newSites.sites) > 0

\* index.js updateSitesConfiguration(newSites), lines 38-54; the call, its
\* argument and its return value are recorded in updates
updateSitesConfiguration(newSites) ==
  /\ refreshes < MaxRefreshes
  /\ refreshes' = refreshes + 1
  /\ SITES' = IF AcceptsUpdate(newSites) THEN newSites.sites ELSE SITES
  /\ updates' = Append(updates, [arg |-> newSites, before |-> SITES, after |-> SITES',
                                  returned |-> AcceptsUpdate(newSites)])
  /\ UNCHANGED <<siteCache, resolveVars, regSites, apiProxies, socketProxies,
                 rootProxyCache, deviceRoutes, instances, reqs>>
  /\ UNCHANGED <<upgVars, notUpd>>

NextRegistry ==
  \/ \E i \in DOMAIN reqs : StaticRoute(i)
  \/ \E i \in DOMAIN reqs : RootApiBegin(i)
  \/ \E i \in DOMAIN reqs : RootApiResume(i)
  \/ \E i \in DOMAIN reqs : DynNeocoreBegin(i, "api")
  \/ \E i \in DOMAIN reqs : DynNeocoreResume(i, "api")
  \/ \E i \in DOMAIN reqs : DynNeocoreBegin(i, "socket")
  \/ \E i \in DOMAIN reqs : DynNeocoreResume(i, "socket")
  \/ \E i \in DOMAIN reqs : DeviceBegin(i)
  \/ \E i \in DOMAIN reqs : DeviceResume(i)
  \/ \E i \in DOMAIN reqs : RootAsset(i)
  \/ \E i \in DOMAIN reqs, fileExists \in BOOLEAN : RootImage(i, fileExists)
  \/ \E i \in DOMAIN reqs : NeocorePageBegin(i)
  \/ \E i \in DOMAIN reqs : NeocorePageResume(i)
  \/ \E newSites \in RefreshArgs : updateSitesConfiguration(newSites)

InitGateway ==
  /\ SITES = <<S1d>>
  /\ siteCache \in RegCacheConfigs
  /\ ResolveIdle
  /\ InitRegistry
  /\ UpgradeIdle
  /\ UpdIdle
  /\ MwIdle
  /\ SessIdle
  /\ MoreIdle

SpecRegistry == InitGateway /\ [][NextRegistry]_vars

---------------------------------------------------------------------------
(* Properties of the proxy registries *)

\* the instances constructed for a key of a registry
CreatedFor(reg, key) == {x \in instances : x.reg = reg /\ x.key = key}

\* the requests that were handed to a proxy of registry reg for key
ServedBy(reg, key) ==
  {i \in DOMAIN reqs : reqs[i].st = "done" /\ reqs[i].via # NoInst
                        /\ reqs[i].via.reg = reg /\ reqs[i].via.key = key}

LazyRegistries == {"api", "socket", "root"}

\* C5: create-on-miss is race-free: whatever the interleaving of the requests
\* suspended on the Tenant Store, at most one proxy instance is ever created for a
\* key of apiProxies, socketProxies or rootProxyCache, and all requests for that
\* key are forwarded through that one instance.
C5_CreateOnMissRaceFree ==
  \A x \in instances :
    x.reg \in LazyRegistries =>
      /\ Cardinality(CreatedFor(x.reg, x.key)) = 1
      /\ \A i \in ServedBy(x.reg, x.key) : reqs[i].via = x

\* C5 witness: two requests for a key that had no instance at registration, one
\* through the root /api handler and one through the dynamic handler, were
\* suspended together and have both been forwarded through the same instance
C5_Witness ==
  \E i, j \in DOMAIN reqs :
    /\ i # j
    /\ reqs[i].st = "done" /\ reqs[j].st = "done"
    /\ reqs[i].h = "rootApi" /\ reqs[j].h = "api"
    /\ reqs[i].via # NoInst /\ reqs[i].via = reqs[j].via
    /\ reqs[i].via.key \notin DOMAIN RegisteredProxies(regSites, "api")
    /\ (reqs[i].raced \/ reqs[j].raced)

\* C6: per (tenant, device, deviceId) key at most one proxy instance is ever
\* created, and all requests for the key, those served by the dynamic
\* /vpn/:siteName/devices/:deviceId handler included, go through that instance.
C6_OneDeviceProxyPerKey ==
  \A x \in instances :
    x.reg = "device" =>
      /\ Cardinality(CreatedFor("device", x.key)) <= 1
      /\ \A i \in ServedBy("device", x.key) : reqs[i].via = x

\* C7: after a refresh that changed the target of a key, every later request for
\* the key is forwarded to the new target, and a key whose target did not change
\* still has the instance it had before the refresh.
C7_RefreshReplacesChangedTargets ==
  /\ \A i \in DOMAIN reqs :
       (reqs[i].st = "done" /\ reqs[i].via.reg \in {"api", "socket"}
          /\ reqs[i].gen > 0 /\ reqs[i].configured # NoStr)
         => reqs[i].via.target = reqs[i].configured
  /\ \A k \in DOMAIN RegisteredProxies(regSites, "api") :
       ConfiguredTarget(SITES, k) = ConfiguredTarget(regSites, k)
         => /\ apiProxies[k] = RegisteredProxies(regSites, "api")[k]
            /\ socketProxies[k] = RegisteredProxies(regSites, "socket")[k]

---------------------------------------------------------------------------
(* WebSocket upgrade coordinator *)

MaxListeners == 2

\* lines 410-457: one raw forwarding instance per (site, neocore) of allSites
BuildWsProxies(sites, listener) ==
  [k \in DOMAIN RegisteredProxies(sites, "ws") |->
     [RegisteredProxies(sites, "ws")[k] EXCEPT !.n = listener]]

\* `if (server && socketProxies.size > 0)`: the listener is registered only when
\* the configuration at registration has a neocore
ListenersAfterRegistration(listeners, sites) ==
  IF NeocorePairs(sites) # {}
  THEN Append(listeners, BuildWsProxies(sites, Len(listeners) + 1))
  ELSE listeners

\* lines 492-494: the tenant prefix is stripped when the path carries the binding
RewrittenUrl(url, site, neocoreId) ==
  IF getSiteAndNeocoreFromPath(url).ok /\ url[2] = site.name /\ url[4] = neocoreId
  THEN StripMount(url, 4) ELSE url

\* a lookup that builds the missing forwarding instance and stores it
WsGetOrCreate(wsProxies, key, site, neocoreId) ==
  IF key \in DOMAIN wsProxies
  THEN [wsProxies |-> wsProxies, proxy |-> wsProxies[key]]
  ELSE LET p == [reg |-> "ws", key |-> key, n |-> 0, target |-> site.neocores[neocoreId]] IN
       [wsProxies |-> [k \in DOMAIN wsProxies \cup {key} |->
                         IF k = key THEN p ELSE wsProxies[k]],
        proxy |-> p]

\* const proxy = wsProxies.get(key) (line 497): the Map is only read
WsLookup(wsProxies, key, site, neocoreId) ==
  [wsProxies |-> wsProxies,
   proxy |-> IF key \in DOMAIN wsProxies THEN wsProxies[key] ELSE NoInst]

\* lines 496-509: the instance found under key is handed the request, a miss
\* destroys the socket; run is the record of this run of the listener
HandOff(c, listener, throws, url, run, got) ==
  IF got.proxy = NoInst THEN
    [c |-> [c EXCEPT !.r.url = url, !.destroyed = TRUE, !.runs = Append(@, run)],
     wsProxies |-> got.wsProxies]
  ELSE
    [c |-> [c EXCEPT !.r.url = url,
              !.destroyed = @ \/ throws,
              !.runs = Append(@, [run EXCEPT !.found = TRUE, !.called = TRUE,
                                             !.threw = throws]),
              !.wsCalls = Append(@, [listener |-> listener, proxy |-> got.proxy,
                                     url |-> url,
                                     st |-> IF throws THEN "failed" ELSE "pending"])],
     wsProxies |-> got.wsProxies]

\* lines 486-505 for the resolution res of the request
HandleResolved(c, wsProxies, listener, throws, res, key) ==
  IF ~res.ok THEN
    [c |-> [c EXCEPT !.destroyed = TRUE,
                     !.runs = Append(@, [listener |-> listener, resolved |-> FALSE,
                                         key |-> <<>>, found |-> FALSE,
                                         called |-> FALSE, threw |-> FALSE])],
     wsProxies |-> wsProxies]
  ELSE
    HandOff(c, listener, throws,
            RewrittenUrl(c.r.url, res.final.site, res.final.id),
            [listener |-> listener, resolved |-> TRUE, key |-> key,
             found |-> FALSE, called |-> FALSE, threw |-> FALSE],
            WsLookup(wsProxies, key, res.final.site, res.final.id))

\* lines 463-484 and the key of line 496
HandleResolution(c, wsProxies, listener, throws, res) ==
  HandleResolved(c, wsProxies, listener, throws, res,
                 ProxyKey(res.final.site, res.final.id))

\* one run of the 'upgrade' listener that closes over wsProxies (lines 459-510);
\* throws tells whether proxy.ws raises.  Yields the connection and the Map afterwards
HandleUpgrade(c, wsProxies, listener, throws) ==
  IF ~IncludesSocketIo(c.r.url) THEN [c |-> c, wsProxies |-> wsProxies]
  ELSE HandleResolution(c, wsProxies, listener, throws, UpgradeResolve(c.r, SITES))

\* server.emit('upgrade', req, socket, head): the listeners run one after the
\* other, in registration order, on the same req and socket.  Yields the
\* connection and the listeners' Maps afterwards
RECURSIVE EmitUpgrade(_, _, _, _)
EmitRest(h, listeners, k, throws) ==
  EmitUpgrade(h.c, [listeners EXCEPT ![k] = h.wsProxies], k + 1, throws)

EmitUpgrade(c, listeners, k, throws) ==
  IF k > Len(listeners) THEN [c |-> c, listeners |-> listeners]
  ELSE EmitRest(HandleUpgrade(c, listeners[k], k, throws[k]), listeners, k, throws)

UpgRequests ==
  [url : {<<"vpn", "s1", "neocore", "0", "socket.io", "">>,
          <<"vpn", "s2", "neocore", "0", "socket.io", "">>,
          <<"vpn", "zz", "neocore", "1", "socket.io", "">>,
          <<"socket.io", "">>, <<"api", "x">>},
   referer : {<<>>, <<"vpn", "s1", "neocore", "1", "page">>},
   origin : {<<>>},
   cookie : {<<>>, <<[k |-> "vpn-site", v |-> "s2"], [k |-> "vpn-neocore", v |-> "0"]>>,
             <<[k |-> "vpn-site", v |-> "zz"]>>}]

\* configurations the gateway can be started with
UpgSiteConfigs == {<<S1d>>, <<S3>>}

InitUpgrade ==
  /\ upgradeListeners = ListenersAfterRegistration(<<>>, SITES)
  /\ conn \in {[NoConn EXCEPT !.r = r, !.received = r] : r \in UpgRequests}

\* registerNeocoreRoutes(app, getSites, server) called once more on the same server
RegisterAgain ==
  /\ Len(upgradeListeners) < MaxListeners
  /\ ~conn.emitted
  /\ upgradeListeners' = ListenersAfterRegistration(upgradeListeners, SITES)
  /\ upgradeListeners' # upgradeListeners
  /\ UNCHANGED <<SITES, siteCache, resolveVars, regVars, conn, moreVars>>

\* the server emits 'upgrade' for the request
UpgradeEvent ==
  /\ ~conn.emitted
  /\ \E throws \in [1..Len(upgradeListeners) -> BOOLEAN] :
       \E e \in {EmitUpgrade(conn, upgradeListeners, 1, throws)} :
         /\ conn' = [e.c EXCEPT !.emitted = TRUE]
         /\ upgradeListeners' = e.listeners
  /\ UNCHANGED <<SITES, siteCache, resolveVars, regVars, moreVars>>

\* proxy.on('error', ...) (lines 427-433): the hand-off k failed after proxy.ws returned
ProxyError(k) ==
  /\ conn.wsCalls[k].st = "pending"
  /\ conn' = [conn EXCEPT !.wsCalls[k].st = "failed", !.destroyed = TRUE]
  /\ UNCHANGED <<SITES, siteCache, resolveVars, regVars, upgradeListeners, moreVars>>

\* proxy.on('open', ...) (lines 447-454): the backend socket of hand-off k is open
ProxyOpen(k) ==
  /\ conn.wsCalls[k].st = "pending"
  /\ ~conn.destroyed
  /\ conn' = [conn EXCEPT !.wsCalls[k].st = "established"]
  /\ UNCHANGED <<SITES, siteCache, resolveVars, regVars, upgradeListeners, moreVars>>

NextUpgrade ==
  \/ RegisterAgain
  \/ UpgradeEvent
  \/ \E k \in DOMAIN conn.wsCalls : ProxyError(k)
  \/ \E k \in DOMAIN conn.wsCalls : ProxyOpen(k)
  \/ \E newSites \in RefreshArgs : updateSitesConfiguration(newSites)

InitCoordinator ==
  /\ SITES \in UpgSiteConfigs
  /\ siteCache = EmptyMap
  /\ ResolveIdle
  /\ RegistryIdle
  /\ InitUpgrade
  /\ MoreIdle

SpecUpgrade == InitCoordinator /\ [][NextUpgrade]_vars

---------------------------------------------------------------------------
(* Properties of the upgrade coordinator *)

\* C8: the hand-off of an upgrade request to a forwarding instance (proxy.ws)
\* happens at most once, and a second delivery of the upgrade event for the
\* request, as through a second registration of the listener, does not enter
\* resolution or dispatch again.
C8_SingleClaimDispatch ==
  /\ Len(conn.wsCalls) <= 1
  /\ Len(conn.runs) <= 1

\* C9: every run of the coordinator on an upgrade whose URL contains /socket.io
\* ends in one of two ways: unresolved, with the socket destroyed and proxy.ws not
\* called, or resolved, with proxy.ws called; a hand-off that failed (proxy.ws
\* threw or the proxy emitted an error) leaves the socket destroyed; no handled
\* upgrade is left neither dispatched nor destroyed.
C9_UpgradeLifecycle ==
  /\ \A k \in DOMAIN conn.runs :
       /\ ~conn.runs[k].resolved => conn.destroyed /\ ~conn.runs[k].called
       /\ conn.runs[k].resolved => conn.runs[k].called
       /\ ~conn.runs[k].called => conn.destroyed
  /\ \A k \in DOMAIN conn.wsCalls : conn.wsCalls[k].st = "failed" => conn.destroyed

\* C11: every upgrade handed to a forwarding instance carries a request path
\* without tenant prefix: it does not start with /vpn/ and begins with
\* /socket.io, also when the tenant came from the cookie or the fallback.
C11_DispatchedPathIsNative ==
  \A k \in DOMAIN conn.wsCalls :
    /\ conn.wsCalls[k].url # <<>>
    /\ conn.wsCalls[k].url[1] # "vpn"
    /\ conn.wsCalls[k].url[1] = "socket.io"

\* C12: the coordinator only looks instances up: a run whose resolved key has no
\* entry in wsProxies destroys the socket and hands nothing off, and handling an
\* upgrade leaves every listener's wsProxies as it was.
C12_LookupOnly ==
  /\ [](\A k \in DOMAIN conn.runs :
          (conn.runs[k].resolved /\ ~conn.runs[k].found)
            => /\ conn.destroyed
               /\ ~conn.runs[k].called
               /\ \A j \in DOMAIN conn.wsCalls :
                    conn.wsCalls[j].listener # conn.runs[k].listener)
  /\ [][(~conn.emitted /\ conn'.emitted) => upgradeListeners' = upgradeListeners]_vars

\* C12 witness: after a refresh the upgrade resolved to a key the listener has no
\* instance for, and the socket has been destroyed
C12_Witness ==
  /\ conn.emitted /\ conn.destroyed /\ refreshes > 0
  /\ \E k \in DOMAIN conn.runs :
       /\ conn.runs[k].resolved /\ ~conn.runs[k].found
       /\ conn.runs[k].key \notin DOMAIN upgradeListeners[conn.runs[k].listener]

----------------------------------------------------------------------------
(* Connections sharing one wsProxies instance (part_002 lines 410-457) *)

MaxSockets == 3

\* a connection handed to the instance stored under key: the client socket and
\* the backend socket the instance opens for it
NewSocket(key) == [key |-> key, client |-> "open", backend |-> "connecting"]

\* an 'error' handler that tears down every connection of the instance
OnWsProxyErrorAll(socks, k) ==
  [j \in DOMAIN socks |->
     IF socks[j].key = socks[k].key /\ socks[j].client = "open"
     THEN [socks[j] EXCEPT !.client = "destroyed"] ELSE socks[j]]

\* proxy.on('error', (err, req, socket) => ...) (lines 427-433): the socket the
\* event carries is destroyed unless it already is
OnWsProxyError(socks, k) ==
  IF socks[k].client # "destroyed"
  THEN [socks EXCEPT ![k].client = "destroyed"]
  ELSE socks

\* proxy.ws(req, socket, head) on the instance found under key (line 505)
WsDispatch(key) ==
  /\ Len(sockets) < MaxSockets
  /\ sockets' = Append(sockets, NewSocket(key))
  /\ UNCHANGED <<coreVars, upgVars, notShare>>

\* proxy.on('open', proxySocket => ...) (lines 447-454): the backend socket of
\* connection k is open; the handler resumes it and attaches a logging listener
WsOpen(k) ==
  /\ sockets[k].backend = "connecting"
  /\ sockets[k].client = "open"
  /\ sockets' = [sockets EXCEPT ![k].backend = "open"]
  /\ UNCHANGED <<coreVars, upgVars, notShare>>

\* the backend side of connection k fails (connect error or I/O error): the
\* instance emits 'error' with that connection's req and socket
WsError(k) ==
  /\ sockets[k].backend \in {"connecting", "open"}
  /\ sockets' = [OnWsProxyError(sockets, k) EXCEPT ![k].backend = "error"]
  /\ UNCHANGED <<coreVars, upgVars, notShare>>

\* the client of connection k closes its socket; its backend socket is ended
WsClientClose(k) ==
  /\ sockets[k].client = "open"
  /\ sockets' = [sockets EXCEPT ![k].client = "closed",
                   ![k].backend = IF @ \in {"connecting", "open"} THEN "closed" ELSE @]
  /\ UNCHANGED <<coreVars, upgVars, notShare>>

\* the backend of connection k closes; the client socket of k is ended
WsBackendClose(k) ==
  /\ sockets[k].backend = "open"
  /\ sockets' = [sockets EXCEPT ![k].backend = "closed",
                   ![k].client = IF @ = "open" THEN "closed" ELSE @]
  /\ UNCHANGED <<coreVars, upgVars, notShare>>

NextShared ==
  \/ \E key \in DOMAIN upgradeListeners[1] : WsDispatch(key)
  \/ \E k \in DOMAIN sockets : WsOpen(k)
  \/ \E k \in DOMAIN sockets : WsError(k)
  \/ \E k \in DOMAIN sockets : WsClientClose(k)
  \/ \E k \in DOMAIN sockets : WsBackendClose(k)

InitShared ==
  /\ SITES = <<S1d>>
  /\ siteCache = EmptyMap
  /\ ResolveIdle
  /\ RegistryIdle
  /\ upgradeListeners = ListenersAfterRegistration(<<>>, SITES)
  /\ conn = NoConn
  /\ sockets = <<>>
  /\ RewriteIdle
  /\ RespIdle
  /\ TunnelIdle
  /\ CacheIdle
  /\ UpdIdle
  /\ MwIdle
  /\ SessIdle

SpecShared == InitShared /\ [][NextShared]_vars

\* C13: connections sharing one per-key forwarding instance are isolated: a step
\* in which one connection closes or fails changes no other connection (no
\* other client socket is destroyed) and leaves the wsProxies entries as they were.
C13_SharedInstanceIsolation ==
  [][/\ upgradeListeners' = upgradeListeners
     /\ \A k \in DOMAIN sockets :
          sockets'[k] # sockets[k]
            => \A j \in DOMAIN sockets : j # k => sockets'[j] = sockets[j]]_vars

\* C13 witness: two connections on the same instance, one failed and destroyed,
\* the other still open end to end
C13_Witness ==
  \E k, j \in DOMAIN sockets :
    /\ k # j /\ sockets[k].key = sockets[j].key
    /\ sockets[k].backend = "error" /\ sockets[k].client = "destroyed"
    /\ sockets[j].backend = "open" /\ sockets[j].client = "open"

----------------------------------------------------------------------------
(* Content rewriting (proxyFactory.js rewriteContent, lines 324-442) *)

\* A body is a sequence of tokens; a path or URL is a sequence of atoms, so that
\* startsWith and the look-aheads of the patterns are tests on leading atoms.
\*   attribute  [k |-> "attr", tag, name, q, path]     name=q path q   inside <tag ...>
\*   ws URL     [k |-> "ws", scheme, host, path]        scheme://host path
\*   call       [k |-> "call", fn, q, url]              fn(q url q
StartsWith(p, pre) ==
  Len(p) >= Len(pre) /\ SubSeq(p, 1, Len(pre)) = pre

\* sitePrefix (lines 326-328)
sitePrefix(siteName, serviceType) ==
  IF serviceType = "neocore" THEN <<"/", "vpn", "/", siteName, "/", "neocore">>
  ELSE <<"/", "vpn", "/", siteName, "/", "devices">>

\* path.startsWith('/') ? path : `/${path}`
absolutePath(path) == IF StartsWith(path, <<"/">>) THEN path ELSE <<"/">> \o path

\* the look-ahead alternatives http|https|\/\/|vpn\/ shared by the device patterns
LookHttpSlashVpn(path) ==
  \/ path[1] \in {"http", "https"}
  \/ StartsWith(path, <<"/", "/">>)
  \/ StartsWith(path, <<"vpn", "/">>)

\* the startsWith tests shared by the callbacks: /vpn/, http://, https://, //
GuardAbsolute(path) ==
  \/ StartsWith(path, <<"/", "vpn", "/">>)
  \/ StartsWith(path, <<"http", ":", "/", "/">>)
  \/ StartsWith(path, <<"https", ":", "/", "/">>)
  \/ StartsWith(path, <<"/", "/">>)

Prefixed(t, pre) == [t EXCEPT !.path = pre \o absolutePath(t.path)]

\* devices rule 1 (lines 343-353): href
DevHref(t, pre) ==
  IF t.k = "attr" /\ t.name = "href" /\ t.path # <<>>
     /\ ~LookHttpSlashVpn(t.path) /\ t.path[1] # "#"
     /\ ~StartsWith(t.path, <<"javascript", ":">>)
     /\ ~(GuardAbsolute(t.path) \/ StartsWith(t.path, <<"#">>)
          \/ StartsWith(t.path, <<"javascript", ":">>))
  THEN Prefixed(t, pre) ELSE t

\* devices rule 2 (lines 356-366): src
DevSrc(t, pre) ==
  IF t.k = "attr" /\ t.name = "src" /\ t.path # <<>>
     /\ ~LookHttpSlashVpn(t.path) /\ ~StartsWith(t.path, <<"data", ":">>)
     /\ ~StartsWith(t.path, <<"javascript", ":">>)
     /\ ~(GuardAbsolute(t.path) \/ StartsWith(t.path, <<"data", ":">>)
          \/ StartsWith(t.path, <<"javascript", ":">>))
  THEN Prefixed(t, pre) ELSE t

\* devices rule 3 (lines 369-379): action
DevAction(t, pre) ==
  IF t.k = "attr" /\ t.name = "action" /\ t.path # <<>>
     /\ ~LookHttpSlashVpn(t.path) /\ ~StartsWith(t.path, <<"javascript", ":">>)
     /\ ~(GuardAbsolute(t.path) \/ StartsWith(t.path, <<"javascript", ":">>))
  THEN Prefixed(t, pre) ELSE t

\* devices rule 4 (lines 382-390): src inside an iframe tag
DevIframe(t, pre) ==
  IF t.k = "attr" /\ t.tag = "iframe" /\ t.name = "src" /\ t.path # <<>>
     /\ ~LookHttpSlashVpn(t.path) /\ ~StartsWith(t.path, <<"data", ":">>)
     /\ ~(GuardAbsolute(t.path) \/ StartsWith(t.path, <<"data", ":">>))
  THEN Prefixed(t, pre) ELSE t

\* rule 5 (lines 393-394, 437): (ws|wss)://host/path becomes
\* $1://${req.headers.host}${sitePrefix}$2; the path needs a character after its slash
WsUrl(t, pre, host) ==
  IF t.k = "ws" /\ Len(t.path) >= 2 /\ t.path[1] = "/"
  THEN [t EXCEPT !.host = host, !.path = pre \o t.path] ELSE t

\* devices rule 6 (lines 397-405): fetch( / XMLHttpRequest( / open( with a literal
DevCall(t, pre) ==
  IF t.k = "call" /\ t.url # <<>> /\ ~GuardAbsolute(t.url)
  THEN [t EXCEPT !.q = "dq", !.url = pre \o absolutePath(t.url)] ELSE t

RECURSIVE AfterLastSlash(_)
\* path.split('/').pop()
AfterLastSlash(path) ==
  IF \E i \in DOMAIN path : path[i] = "/"
  THEN AfterLastSlash(Tail(path)) ELSE path

\* neocore rules 1 and 2 (lines 411-420): /static/js/main.*.js and
\* /static/css/main.*.css become /<file name>
NeoMain(t, dir, ext) ==
  IF t.k = "attr" /\ t.name \in {"src", "href"}
     /\ StartsWith(t.path, <<"/", "static", "/", dir, "/", "main.">>)
     /\ Len(t.path) >= 8 /\ t.path[Len(t.path)] = ext
  THEN [t EXCEPT !.path = <<"/">> \o AfterLastSlash(t.path)] ELSE t

\* neocore rule 3 (line 423): /api/...
NeoApi(t, pre) ==
  IF t.k = "attr" /\ StartsWith(t.path, <<"/", "api", "/">>) /\ Len(t.path) >= 4
  THEN [t EXCEPT !.path = pre \o t.path] ELSE t

\* neocore rule 4 (lines 426-434): other root-relative src/href
NeoStatic(t, pre) ==
  IF t.k = "attr" /\ t.name \in {"src", "href"}
     /\ Len(t.path) >= 2 /\ t.path[1] = "/"
     /\ ~LookHttpSlashVpn(Tail(t.path)) /\ t.path[2] # "main."
     /\ ~GuardAbsolute(t.path)
  THEN [t EXCEPT !.path = pre \o t.path] ELSE t

\* all the rules of one service type applied to one token, in the order of the chain
RewriteToken(t, siteName, host, serviceType) ==
  LET pre == sitePrefix(siteName, serviceType) IN
  IF serviceType = "devices"
  THEN DevCall(WsUrl(DevIframe(DevAction(DevSrc(DevHref(t, pre), pre), pre), pre),
                     pre, host), pre)
  ELSE WsUrl(NeoStatic(NeoApi(NeoMain(NeoMain(t, "js", ".js"), "css", ".css"), pre), pre),
             pre, host)

\* rewriteContent(body, siteName, req, serviceType)
rewriteContent(body, siteName, host, serviceType) ==
  [i \in DOMAIN body |-> RewriteToken(body[i], siteName, host, serviceType)]

MaxTokens == 2

Attr(tag, name, path) == [k |-> "attr", tag |-> tag, name |-> name, q |-> "dq", path |-> path]

\* the tokens bodies are made of: relative, root-relative, absolute,
\* protocol-relative and data: references, a WebSocket URL and a fetch call
Tokens ==
  { Attr("link", "href", <<"style.css">>),
    Attr("script", "src", <<"/", "static", "/", "js", "/", "app.js">>),
    Attr("script", "src", <<"/", "static", "/", "js", "/", "main.", "8f3a", ".js">>),
    Attr("a", "href", <<"/", "api", "/", "health">>),
    Attr("img", "src", <<"https", ":", "/", "/", "external.example", "/", "x.png">>),
    Attr("script", "src", <<"/", "/", "cdn.example", "/", "lib.js">>),
    Attr("link", "href", <<"data", ":", "image/png;base64,AAAA">>),
    Attr("img", "src", <<"data", ":", "image/png;base64,AAAA">>),
    Attr("form", "action", <<"http", ":", "/", "/", "auth.example", "/", "login">>),
    Attr("form", "action", <<"login.cgi">>),
    Attr("iframe", "src", <<"live.html">>),
    [k |-> "ws", scheme |-> "ws", host |-> "10.9.0.5", path |-> <<"/", "socket.io">>],
    [k |-> "call", fn |-> "fetch", q |-> "sq", url |-> <<"/", "status">>] }

RECURSIVE SeqsUpTo(_, _)
SeqsUpTo(S, n) ==
  IF n = 0 THEN {<<>>}
  ELSE LET shorter == SeqsUpTo(S, n - 1) IN
       shorter \cup {Append(b, t) : b \in shorter, t \in S}

Bodies == SeqsUpTo(Tokens, MaxTokens) \ {<<>>}

\* the Host header of the request whose response is rewritten
GatewayHost == "gw.example"

InitRewrite ==
  /\ SITES = <<S1d>>
  /\ siteCache = EmptyMap
  /\ ResolveIdle
  /\ RegistryIdle
  /\ UpgradeIdle
  /\ UpdIdle
  /\ MwIdle
  /\ SessIdle
  /\ ShareIdle
  /\ RespIdle
  /\ TunnelIdle
  /\ CacheIdle
  /\ rw \in {[body |-> b, serviceType |-> st, pc |-> "body", once |-> <<>>, twice |-> <<>>] :
               b \in Bodies, st \in {"neocore", "devices"}}

\* body = rewriteContent(body, site.name, req, serviceType)
RewriteOnce ==
  /\ rw.pc = "body"
  /\ rw' = [rw EXCEPT !.pc = "once",
              !.once = rewriteContent(rw.body, SITES[1].name, GatewayHost, rw.serviceType)]
  /\ UNCHANGED <<coreVars, upgVars, notRewrite>>

\* the rewritten body is rewritten once more for the same tenant and service
RewriteAgain ==
  /\ rw.pc = "once"
  /\ rw' = [rw EXCEPT !.pc = "twice",
              !.twice = rewriteContent(rw.once, SITES[1].name, GatewayHost, rw.serviceType)]
  /\ UNCHANGED <<coreVars, upgVars, notRewrite>>

NextRewrite == RewriteOnce \/ RewriteAgain

SpecRewrite == InitRewrite /\ [][NextRewrite]_vars

\* C14: content rewriting is idempotent: rewriting a rewritten body again for the
\* same tenant and service yields the same body (no path is prefixed twice).
C14_RewriteIdempotent ==
  rw # <<>> /\ rw.pc = "twice" => rw.twice = rw.once

\* an absolute (http://, https://), protocol-relative (//) or data: reference
External(path) ==
  \/ StartsWith(path, <<"http", ":", "/", "/">>)
  \/ StartsWith(path, <<"https", ":", "/", "/">>)
  \/ StartsWith(path, <<"/", "/">>)
  \/ StartsWith(path, <<"data", ":">>)

\* C15: every href, src, action or iframe attribute whose value is absolute,
\* protocol-relative or a data: URI occurs unchanged in the rewritten body.
C15_ExternalUntouched ==
  rw # <<>> /\ rw.pc # "body"
    => \A i \in DOMAIN rw.body :
         (rw.body[i].k = "attr" /\ External(rw.body[i].path)) => rw.once[i] = rw.body[i]

----------------------------------------------------------------------------
(* Responses of forwarded requests: createProxy (part_002 lines 189-225),
   createNeocoreProxy and createDevicesProxy (proxyFactory.js lines 46-166, 173-315) *)

\* the client-side response object as the handlers see it
NoRes == [headersSent |-> FALSE, writableEnded |-> FALSE, status |-> 0,
          error |-> "", body |-> <<>>, writes |-> 0]

\* res.status(code).json({ error: msg, ... })
Json(res, code, msg) ==
  [res EXCEPT !.headersSent = TRUE, !.writableEnded = TRUE, !.status = code, !.error = msg,
              !.writes = @ + 1]

\* String.prototype.includes on a header value given as a sequence of atoms
IncludesSeq(value, sub) ==
  \E i \in 1..Len(value) : /\ i + Len(sub) - 1 <= Len(value)
                           /\ SubSeq(value, i, i + Len(sub) - 1) = sub

\* a classification that takes every content type for text
isTextContentAlways(contentType) == Len(contentType) >= 0

\* isTextContent (proxyFactory.js lines 107-114, 263-268)
isTextContent(contentType) ==
  \/ IncludesSeq(contentType, <<"text/html">>)
  \/ IncludesSeq(contentType, <<"text/css">>)
  \/ IncludesSeq(contentType, <<"javascript">>)
  \/ IncludesSeq(contentType, <<"application/json">>)
  \/ IncludesSeq(contentType, <<"text/plain">>)

\* onError of createProxy (part_002 lines 211-217)
createProxyOnError(res, code) ==
  IF code # "ECONNRESET" /\ code # "EPIPE" /\ ~res.headersSent /\ ~res.writableEnded
  THEN Json(res, 502, "Proxy error") ELSE res

\* an onError that answers without looking at the state of the response
unguardedOnError(res, code) == Json(res, 502, "Proxy error")

\* onError of createNeocoreProxy and createDevicesProxy (lines 78-98, 214-238)
factoryOnError(res, code) ==
  IF ~res.headersSent /\ ~res.writableEnded
  THEN Json(res, 502, "Proxy error") ELSE res

\* a catch block that answers with the body as the backend sent it
OnRewriteErrorPassThrough(f) ==
  [f EXCEPT !.res = [@ EXCEPT !.headersSent = TRUE, !.writableEnded = TRUE,
                              !.status = 200, !.body = f.buf, !.writes = @ + 1]]

\* the catch block of the 'end' listener (lines 138-145, 292-299)
OnRewriteError(f) ==
  IF ~f.res.headersSent /\ ~f.res.writableEnded
  THEN [f EXCEPT !.res = Json(@, 500, "Content processing error")]
  ELSE f

\* whether the 'end' listener rewrites the buffered body: always for devices
\* (line 282), for text/html only in createNeocoreProxy (lines 129-131)
RewriteApplies(f) ==
  \/ f.factory = "createDevicesProxy"
  \/ IncludesSeq(f.contentType, <<"text/html">>)

ServiceTypeOf(factory) == IF factory = "createDevicesProxy" THEN "devices" ELSE "neocore"

\* proxyRes.on("end", ...) (lines 126-146, 280-299)
OnProxyEnd(f) ==
  IF RewriteApplies(f) /\ f.rwThrows
  THEN [OnRewriteError(f) EXCEPT !.rewriteThrew = TRUE, !.pc = "done"]
  ELSE LET body == IF RewriteApplies(f)
                   THEN rewriteContent(f.buf, SITES[1].name, GatewayHost,
                                       ServiceTypeOf(f.factory))
                   ELSE f.buf
           g == [f EXCEPT !.rewritten = RewriteApplies(f), !.pc = "done"] IN
       IF ~f.res.headersSent /\ ~f.res.writableEnded
       THEN [g EXCEPT !.res = [@ EXCEPT !.headersSent = TRUE, !.writableEnded = TRUE,
                                        !.status = 200, !.body = body,
                                        !.writes = @ + 1]]
       ELSE g

\* onProxyRes (lines 100-119, 257-273); createProxy sets no onProxyRes and the
\* response is streamed
OnProxyRes(f) ==
  IF f.factory # "createProxy" /\ isTextContent(f.contentType)
  THEN [f EXCEPT !.pc = "buffering"]
  ELSE [f EXCEPT !.pc = "piping", !.piped = TRUE]

ErrorCodes ==
  {"ECONNRESET", "EPIPE", "ECONNREFUSED", "ERR_STREAM_WRITE_AFTER_END", "ETIMEDOUT"}

ContentTypes ==
  { <<"text/html", "; charset=utf-8">>, <<"text/css">>, <<"application/", "javascript">>,
    <<"application/json">>, <<"text/plain">>,
    <<"image/png">>, <<"application/octet-stream">>, <<"font/woff2">>, <<>> }

\* what the backends answer with
BackendBodies ==
  { <<Attr("link", "href", <<"style.css">>)>>,
    <<Attr("a", "href", <<"/", "api", "/", "health">>),
      [k |-> "ws", scheme |-> "ws", host |-> "10.9.0.5", path |-> <<"/", "socket.io">>]>> }

NewForward(factory, contentType, body, rwThrows) ==
  [factory |-> factory, contentType |-> contentType, backendBody |-> body,
   rwThrows |-> rwThrows, pc |-> "forwarded", err |-> "", buf |-> <<>>,
   buffered |-> FALSE, rewritten |-> FALSE, rewriteThrew |-> FALSE, piped |-> FALSE,
   late |-> "", lateRes |-> "", res |-> NoRes]

InitResponse ==
  /\ SITES = <<S1d>>
  /\ siteCache = EmptyMap
  /\ ResolveIdle
  /\ RegistryIdle
  /\ UpgradeIdle
  /\ UpdIdle
  /\ MwIdle
  /\ SessIdle
  /\ ShareIdle
  /\ RewriteIdle
  /\ TunnelIdle
  /\ CacheIdle
  /\ fwd \in {NewForward(fa, ct, b, th) :
                fa \in {"createProxy", "createNeocoreProxy", "createDevicesProxy"},
                ct \in ContentTypes, b \in BackendBodies, th \in BOOLEAN}

\* the connection to the backend fails before any response: onError(err, req, res)
BackendError(code) ==
  /\ fwd.pc = "forwarded"
  /\ fwd' = [fwd EXCEPT !.pc = "failed", !.err = code,
               !.res = IF fwd.factory = "createProxy"
                       THEN createProxyOnError(@, code)
                       ELSE factoryOnError(@, code)]
  /\ UNCHANGED <<coreVars, upgVars, notResp>>

\* the backend's response head arrives
ProxyResponse ==
  /\ fwd.pc = "forwarded"
  /\ fwd' = OnProxyRes(fwd)
  /\ UNCHANGED <<coreVars, upgVars, notResp>>

\* proxyRes.on("data", chunk => body += chunk.toString()) (lines 121-124, 275-278)
BufferData ==
  /\ fwd.pc = "buffering"
  /\ ~fwd.buffered
  /\ fwd' = [fwd EXCEPT !.buf = fwd.backendBody, !.buffered = TRUE]
  /\ UNCHANGED <<coreVars, upgVars, notResp>>

\* the backend's response ends while it is buffered
ProxyEnd ==
  /\ fwd.pc = "buffering"
  /\ fwd.buffered
  /\ fwd' = OnProxyEnd(fwd)
  /\ UNCHANGED <<coreVars, upgVars, notResp>>

\* proxyRes.on("error", ...) (lines 148-158, 301-311)
ProxyResError(code) ==
  /\ fwd.pc = "buffering"
  /\ fwd' = [fwd EXCEPT !.pc = "aborted", !.err = code,
               !.res = IF ~@.headersSent /\ ~@.writableEnded
                       THEN Json(@, 502, "Proxy response error") ELSE @]
  /\ UNCHANGED <<coreVars, upgVars, notResp>>

\* proxyRes.pipe(res): the body reaches the client as the backend sent it
PipeThrough ==
  /\ fwd.pc = "piping"
  /\ fwd' = [fwd EXCEPT !.pc = "done",
               !.res = [@ EXCEPT !.headersSent = TRUE, !.writableEnded = TRUE,
                                 !.status = 200, !.body = fwd.backendBody,
                                 !.writes = @ + 1]]
  /\ UNCHANGED <<coreVars, upgVars, notResp>>

NextResponse ==
  \/ \E code \in ErrorCodes : BackendError(code)
  \/ ProxyResponse
  \/ BufferData
  \/ ProxyEnd
  \/ \E code \in ErrorCodes : ProxyResError(code)
  \/ PipeThrough

SpecResponse == InitResponse /\ [][NextResponse]_vars

\* the proxy request fails after the response head has arrived (the socket is
\* reset while the body is read or after it): onError(err, req, res) runs
\* against a response the listeners of onProxyRes also write
LateBackendError(code) ==
  /\ fwd.pc \in {"buffering", "aborted", "done"}
  /\ fwd.late = ""
  /\ fwd' = [fwd EXCEPT !.late = code,
               !.res = IF fwd.factory = "createProxy"
                       THEN createProxyOnError(@, code)
                       ELSE factoryOnError(@, code)]
  /\ UNCHANGED <<coreVars, upgVars, notResp>>

\* the 'error' listener of the buffered response (lines 148-158, 301-311) runs
\* after its 'end' listener
ErrorAfterEnd(code) ==
  /\ fwd.pc = "done"
  /\ fwd.buffered
  /\ fwd.lateRes = ""
  /\ fwd' = [fwd EXCEPT !.lateRes = code,
               !.res = IF ~@.headersSent /\ ~@.writableEnded
                       THEN Json(@, 502, "Proxy response error") ELSE @]
  /\ UNCHANGED <<coreVars, upgVars, notResp>>

\* the listeners of one forwarded request in every order of its events
NextResponseOrder ==
  \/ NextResponse
  \/ \E code \in ErrorCodes : LateBackendError(code)
  \/ \E code \in ErrorCodes : ErrorAfterEnd(code)

SpecResponseOrder == InitResponse /\ [][NextResponseOrder]_vars

\* content types that are html, css, javascript, json or plain text
TextualTypes ==
  { <<"text/html", "; charset=utf-8">>, <<"text/css">>, <<"application/", "javascript">>,
    <<"application/json">>, <<"text/plain">> }

C18_ConnectionErrorIs502 ==
  (fwd # <<>> /\ fwd.pc = "failed" /\ fwd.err # "")
    => fwd.res.status = 502 /\ fwd.res.error # "" /\ fwd.res.writableEnded

----------------------------------------------------------------------------
(* Device readiness gating: tunnelManager.js startSocksTunnel (lines 62-113) and
   the [tunnelCheck, proxy] pair of createDevicesProxy (proxyFactory.js lines 173-317) *)

MaxSpawns == 3
MaxDevReqs == 2

\* site.devices.ssh (0 for null, else the number of the process it refers to),
\* tunnelReady, the ssh processes spawned so far with their states, and the
\* callbacks and timers still to run
NoTunnel == [ssh |-> 0, tunnelReady |-> FALSE, starting |-> 0, waiters |-> 0,
             timers |-> 0, procs |-> <<>>, log |-> "",
             stopped |-> FALSE, stoppedAt |-> 0, quietAtStop |-> FALSE,
             probe |-> ""]

\* a middleware that lets every request through
tunnelCheckOpen(tunnelReady) ==
  [readyAtCheck |-> tunnelReady, status |-> 0, retryAfter |-> 0,
   forwarded |-> TRUE, st |-> "pending"]

\* tunnelCheck (proxyFactory.js lines 177-192): 503 with retryAfter: 2 and no
\* next() while the flag is false, next() otherwise
tunnelCheck(tunnelReady) ==
  IF ~tunnelReady
  THEN [readyAtCheck |-> FALSE, status |-> 503, retryAfter |-> 2,
        forwarded |-> FALSE, st |-> "done"]
  ELSE [readyAtCheck |-> TRUE, status |-> 0, retryAfter |-> 0,
        forwarded |-> TRUE, st |-> "pending"]

\* initializeTunnels has called startSocksTunnel(site); killProcessOnPort is running
InitTunnel ==
  /\ SITES = <<S1d>>
  /\ siteCache = EmptyMap
  /\ ResolveIdle
  /\ RegistryIdle
  /\ UpgradeIdle
  /\ UpdIdle
  /\ MwIdle
  /\ SessIdle
  /\ ShareIdle
  /\ RewriteIdle
  /\ RespIdle
  /\ CacheIdle
  /\ tunnel = [NoTunnel EXCEPT !.starting = 1]
  /\ devReqs = <<>>

\* kill -9 of the pids lsof found on the port (lines 13-20): a running process
\* is dead at once, its 'exit' event is still to come
KillOnPort(procs, sawLive) ==
  [k \in DOMAIN procs |-> IF sawLive /\ procs[k] = "running" THEN "killed" ELSE procs[k]]

\* the callback of killProcessOnPort (lines 71-112): ssh is spawned, the flag is
\* cleared and waitForPort starts.  sawLive: lsof listed a process on the port
Spawn(sawLive) ==
  /\ tunnel.starting > 0
  /\ sawLive => /\ \E k \in DOMAIN tunnel.procs : tunnel.procs[k] = "running"
                /\ Len(tunnel.procs) < MaxSpawns
  /\ tunnel' = [tunnel EXCEPT !.starting = @ - 1,
                              !.procs = Append(KillOnPort(@, sawLive), "running"),
                              !.ssh = Len(tunnel.procs) + 1,
                              !.tunnelReady = FALSE, !.waiters = @ + 1,
                              !.log = "Starting SOCKS tunnel"]
  /\ UNCHANGED <<coreVars, upgVars, notTunnel, devReqs>>

\* handlers that forget to schedule the restart
HandlerWithoutTimer(t, log) ==
  [t EXCEPT !.ssh = 0, !.tunnelReady = FALSE, !.log = log]

\* the body of the 'error' and 'exit' handlers (lines 88-91, 95-100)
FailureHandler(t, log) ==
  [t EXCEPT !.ssh = 0, !.tunnelReady = FALSE, !.timers = @ + 1, !.log = log]

\* the processes spawned so far and the start attempts still to come
Potential(t) == Len(t.procs) + t.timers + t.starting

\* process k emits 'exit' (lines 94-101); the event may also follow an 'error'
SshExit(k) ==
  /\ tunnel.procs[k] \in {"running", "killed", "errored", "stopped"}
  /\ tunnel.procs[k] \notin {"killed", "stopped"} => Potential(tunnel) < MaxSpawns
  /\ tunnel' = [FailureHandler(tunnel, "Tunnel closed") EXCEPT !.procs[k] = "exited"]
  /\ UNCHANGED <<coreVars, upgVars, notTunnel, devReqs>>

\* process k emits 'error' (lines 87-92): it could not be spawned
SshError(k) ==
  /\ tunnel.procs[k] = "running"
  /\ Potential(tunnel) < MaxSpawns
  /\ tunnel' = [FailureHandler(tunnel, "SSH tunnel error") EXCEPT !.procs[k] = "errored"]
  /\ UNCHANGED <<coreVars, upgVars, notTunnel, devReqs>>

\* setTimeout(() => startSocksTunnel(site), 5000) fires (lines 62-64)
RestartTimer ==
  /\ tunnel.timers > 0
  /\ tunnel' = [tunnel EXCEPT !.timers = @ - 1,
                              !.starting = IF tunnel.ssh # 0 THEN @ ELSE @ + 1]
  /\ UNCHANGED <<coreVars, upgVars, notTunnel, devReqs>>

\* a callback that trusts the probe alone
ProbeUnchecked(ready, ssh) == ready

\* ready && site.devices.ssh && !site.devices.ssh.killed (line 106); a process
\* on which kill() was called is no longer referenced (lines 122-123)
ProbeAccepted(ready, ssh) == ready /\ ssh # 0

\* the callback of waitForPort (lines 105-112)
PortCallback(ready) ==
  /\ tunnel.waiters > 0
  /\ tunnel' = [tunnel EXCEPT !.waiters = @ - 1,
                              !.tunnelReady = ProbeAccepted(ready, tunnel.ssh),
                              !.probe = IF ready THEN "open" ELSE "closed",
                              !.log = IF ProbeAccepted(ready, tunnel.ssh)
                                      THEN "SOCKS tunnel ready"
                                      ELSE "SOCKS tunnel failed to start"]
  /\ UNCHANGED <<coreVars, upgVars, notTunnel, devReqs>>

\* stopSocksTunnel(site) (lines 120-126): kill() on the referenced process, then
\* the reference and the flag are cleared; the process's 'exit' is still to come
StopTunnel ==
  /\ ~tunnel.stopped
  /\ tunnel.ssh # 0
  /\ tunnel' = [tunnel EXCEPT !.procs[tunnel.ssh] = "stopped", !.ssh = 0,
                              !.tunnelReady = FALSE, !.log = "stopped",
                              !.stopped = TRUE, !.stoppedAt = Len(tunnel.procs),
                              !.quietAtStop = (tunnel.starting = 0 /\ tunnel.timers = 0)]
  /\ UNCHANGED <<coreVars, upgVars, notTunnel, devReqs>>

\* a request under /vpn/<site>/devices reaches the middleware pair
DeviceRequest ==
  /\ Len(devReqs) < MaxDevReqs
  /\ devReqs' = Append(devReqs, tunnelCheck(tunnel.tunnelReady))
  /\ UNCHANGED <<coreVars, upgVars, notTunnel, tunnel>>

\* onError of the devices proxy (lines 214-238) for forwarded request k
DeviceBackendError(k) ==
  /\ devReqs[k].st = "pending"
  /\ devReqs' = [devReqs EXCEPT ![k].st = "done", ![k].status = 502]
  /\ UNCHANGED <<coreVars, upgVars, notTunnel, tunnel>>

\* the device answers forwarded request k
DeviceBackendResponse(k) ==
  /\ devReqs[k].st = "pending"
  /\ devReqs' = [devReqs EXCEPT ![k].st = "done", ![k].status = 200]
  /\ UNCHANGED <<coreVars, upgVars, notTunnel, tunnel>>

NextTunnel ==
  \/ \E sawLive \in BOOLEAN : Spawn(sawLive)
  \/ \E k \in DOMAIN tunnel.procs : SshExit(k)
  \/ \E k \in DOMAIN tunnel.procs : SshError(k)
  \/ RestartTimer
  \/ \E ready \in BOOLEAN : PortCallback(ready)
  \/ StopTunnel
  \/ DeviceRequest
  \/ \E k \in DOMAIN devReqs : DeviceBackendError(k)
  \/ \E k \in DOMAIN devReqs : DeviceBackendResponse(k)

SpecTunnel == InitTunnel /\ [][NextTunnel]_vars

\* timers fire and the callback of exec is called: the event loop runs every
\* callback that is due
SpecTunnelFair ==
  /\ InitTunnel /\ [][NextTunnel]_vars
  /\ WF_vars(RestartTimer)
  /\ WF_vars(\E sawLive \in BOOLEAN : Spawn(sawLive))

\* C19: a device request handled while tunnelReady is false is answered 503 with
\* a retryAfter hint, is never forwarded and never answered 502, whatever tunnel
\* events happen before or after it.
C19_NotReadyIs503 ==
  \A k \in DOMAIN devReqs :
    ~devReqs[k].readyAtCheck
      => /\ devReqs[k].status = 503 /\ devReqs[k].retryAfter > 0
         /\ ~devReqs[k].forwarded /\ devReqs[k].st = "done"

\* C19 witness: a request was gated after the tunnel had been ready and exited,
\* another one was forwarded and failed, and the tunnel is ready again
C19_Witness ==
  /\ tunnel # <<>> /\ Len(tunnel.procs) = MaxSpawns /\ tunnel.tunnelReady
  /\ \E k, j \in DOMAIN devReqs :
       /\ ~devReqs[k].readyAtCheck /\ devReqs[k].status = 503
       /\ devReqs[j].readyAtCheck /\ devReqs[j].status = 502

----------------------------------------------------------------------------
(* Expiry of Tenant Store cache entries: getSiteBySlug (part_005 lines 178-230) *)

\* time is counted in seconds
CACHE_TTL_S == 300
NEGATIVE_TTL_S == 60
Tick == 30
MaxTime == 120
MaxLookups == 2

CacheSlugs == {"s2"}

\* the first half of getSiteBySlug (lines 183-196): an entry that has not
\* expired answers the call, an expired one is deleted
\* a cache that still serves an entry at the instant it expires
CacheHitLoose(entries, slug, t) ==
  slug \in DOMAIN entries /\ entries[slug].expiresAt >= t

CacheHit(entries, slug, t) ==
  slug \in DOMAIN entries /\ entries[slug].expiresAt > t

WithoutExpired(entries, slug, t) ==
  IF slug \in DOMAIN entries /\ ~(entries[slug].expiresAt > t)
  THEN [x \in DOMAIN entries \ {slug} |-> entries[x]]
  ELSE entries

\* lookupSiteBySlug (lines 32-99) given the rows the query returned: without
\* rows it returns null (lines 76-79); with rows it reaches the transformer call
\* of line 84, which lookupSiteBySlug models
LookupResult(slug, rows) ==
  IF \E r \in rows : r.slug = slug THEN lookupSiteBySlug(slug) ELSE NullSite

\* the second half of getSiteBySlug (lines 208-227): the entry written for the
\* lookup's result
CacheSet(entries, slug, siteConfig, t) ==
  [x \in DOMAIN entries \cup {slug} |->
     IF x = slug
     THEN [siteConfig |-> siteConfig,
           expiresAt |-> IF siteConfig # NullSite THEN t + CACHE_TTL_S
                         ELSE t + NEGATIVE_TTL_S,
           stale |-> FALSE]
     ELSE entries[x]]

InitCache ==
  /\ SITES = <<S1d>>
  /\ siteCache = EmptyMap
  /\ ResolveIdle
  /\ RegistryIdle
  /\ UpgradeIdle
  /\ UpdIdle
  /\ MwIdle
  /\ SessIdle
  /\ ShareIdle
  /\ RewriteIdle
  /\ RespIdle
  /\ TunnelIdle
  /\ now = 0
  /\ cacheEntries = <<>>
  /\ dbRows = {}
  /\ lookups = <<>>

\* time passes
Advance ==
  /\ now < MaxTime
  /\ now' = now + Tick
  /\ UNCHANGED <<coreVars, upgVars, notCache, cacheEntries, dbRows, lookups>>

\* a tenant is provisioned: its remote_access rows appear in the database
Provision(slug) ==
  /\ \A r \in dbRows : r.slug # slug
  /\ dbRows' = dbRows \cup {[slug |-> slug, at |-> now]}
  /\ UNCHANGED <<coreVars, upgVars, notCache, now, cacheEntries, lookups>>

\* the configuration the transformer builds from a slug's rows
StoreSite(slug) == IF slug = "s2" THEN S2 ELSE S3

\* a catch block that lets the error out of lookupSiteBySlug
rethrowLookupError(slug) == [value |-> NullSite, rejected |-> TRUE]

\* catch (error) { ...; return null; } of lookupSiteBySlug (lines 95-98)
catchLookupError(slug) == [value |-> NullSite, rejected |-> FALSE]

\* what the promise of lookupSiteBySlug settles to once the query has returned
\* the rows or thrown
LookupOutcome(slug, rows, throws) ==
  IF throws THEN catchLookupError(slug)
  ELSE [value |-> LookupResult(slug, rows), rejected |-> FALSE]

\* detectSite after its await (part_002 lines 67-73): a rejection is caught
detectSiteAfter(outcome) ==
  IF outcome.rejected THEN NullSite ELSE outcome.value

NewLookup(slug, t) ==
  [slug |-> slug, issuedAt |-> t, doneAt |-> t, st |-> "done", queried |-> FALSE,
   found |-> FALSE, value |-> NullSite, failure |-> "", rejected |-> FALSE,
   fromCache |-> FALSE, servedExpiresAt |-> 0, detected |-> NullSite,
   rowsSeen |-> {}, stale |-> FALSE, servedStale |-> FALSE]

\* getSiteBySlug(slug) up to its await (lines 178-206); pool tells whether the
\* database pool has been set
GetSiteBegin(slug, pool) ==
  /\ Len(lookups) < MaxLookups
  /\ IF CacheHit(cacheEntries, slug, now)
     THEN /\ lookups' = Append(lookups,
                [NewLookup(slug, now) EXCEPT
                   !.found = cacheEntries[slug].siteConfig # NullSite,
                   !.value = cacheEntries[slug].siteConfig,
                   !.detected = cacheEntries[slug].siteConfig,
                   !.fromCache = TRUE,
                   !.servedExpiresAt = cacheEntries[slug].expiresAt,
                   !.servedStale = cacheEntries[slug].stale])
          /\ UNCHANGED cacheEntries
     ELSE /\ lookups' = Append(lookups,
                IF pool
                THEN [NewLookup(slug, now) EXCEPT !.st = "querying", !.queried = TRUE]
                ELSE [NewLookup(slug, now) EXCEPT !.failure = "no pool"])
          /\ cacheEntries' = WithoutExpired(cacheEntries, slug, now)
  /\ UNCHANGED <<coreVars, upgVars, notCache, now, dbRows>>

\* the database runs the query of lookup k (pool.query, line 74) some time
\* before the promise settles: the rows it reads are those of this moment
QueryRuns(k) ==
  /\ lookups[k].st = "querying"
  /\ lookups' = [lookups EXCEPT ![k].st = "fetched", ![k].rowsSeen = dbRows]
  /\ UNCHANGED <<coreVars, upgVars, notCache, now, cacheEntries, dbRows>>

\* siteCache.set of getSiteBySlug (lines 210-225): the result of the lookup is
\* written whatever happened to the cache during the await; stale tells whether
\* the rows were read before an invalidation of the slug
CacheSetAfterAwait(entries, slug, siteConfig, t, stale) ==
  [CacheSet(entries, slug, siteConfig, t) EXCEPT ![slug].stale = stale]

\* the rows the query of lookup k returns: those it read earlier, or those of
\* the moment it settles
RowsOf(lookup, rows) == IF lookup.st = "fetched" THEN lookup.rowsSeen ELSE rows

\* the query of lookup k returns or throws, and getSiteBySlug resumes (lines 208-229)
GetSiteResume(k, throws) ==
  /\ lookups[k].st \in {"querying", "fetched"}
  /\ \E outcome \in {LookupOutcome(lookups[k].slug, RowsOf(lookups[k], dbRows), throws)} :
       /\ cacheEntries' = IF outcome.rejected THEN cacheEntries
                          ELSE CacheSetAfterAwait(cacheEntries, lookups[k].slug,
                                                  outcome.value, now, lookups[k].stale)
       /\ lookups' = [lookups EXCEPT ![k].st = "done", ![k].doneAt = now,
                        ![k].found = outcome.value # NullSite,
                        ![k].value = outcome.value,
                        ![k].rejected = outcome.rejected,
                        ![k].detected = detectSiteAfter(outcome),
                        ![k].failure = IF throws THEN "query threw" ELSE ""]
  /\ UNCHANGED <<coreVars, upgVars, notCache, now, dbRows>>

\* preloadAllSitesToCache (lines 106-170): every slug with rows gets an entry
Preload ==
  /\ dbRows # {}
  /\ LET slugs == {r.slug : r \in dbRows} IN
     /\ cacheEntries' = [x \in DOMAIN cacheEntries \cup slugs |->
                           IF x \in slugs
                           THEN [siteConfig |-> StoreSite(x), expiresAt |-> now + CACHE_TTL_S,
                                 stale |-> FALSE]
                           ELSE cacheEntries[x]]
     /\ cacheEntries' # cacheEntries
  /\ UNCHANGED <<coreVars, upgVars, notCache, now, dbRows, lookups>>

\* invalidateSiteCache(siteSlug) (lines 236-241): the entry is deleted; the
\* lookups of the slug whose query has already read the database now hold
\* rows older than the invalidation
invalidateSiteCache(slug) ==
  /\ \/ slug \in DOMAIN cacheEntries
     \/ \E k \in DOMAIN lookups : lookups[k].slug = slug /\ lookups[k].st = "fetched"
                                     /\ ~lookups[k].stale
  /\ cacheEntries' = [x \in DOMAIN cacheEntries \ {slug} |-> cacheEntries[x]]
  /\ lookups' = [k \in DOMAIN lookups |->
                   IF lookups[k].slug = slug /\ lookups[k].st = "fetched"
                   THEN [lookups[k] EXCEPT !.stale = TRUE] ELSE lookups[k]]
  /\ UNCHANGED <<coreVars, upgVars, notCache, now, dbRows>>

NextCache ==
  \/ Advance
  \/ \E slug \in CacheSlugs : Provision(slug)
  \/ \E slug \in CacheSlugs, pool \in BOOLEAN : GetSiteBegin(slug, pool)
  \/ \E k \in DOMAIN lookups, throws \in BOOLEAN : GetSiteResume(k, throws)
  \/ Preload

SpecCache == InitCache /\ [][NextCache]_vars

\* the Tenant Store with invalidations and with queries that read the database
\* before they settle
NextInvalidate ==
  \/ NextCache
  \/ \E k \in DOMAIN lookups : QueryRuns(k)
  \/ \E slug \in CacheSlugs : invalidateSiteCache(slug)

SpecInvalidate == InitCache /\ [][NextInvalidate]_vars

\* C20: negative caching is bounded: a tenant provisioned after a failed lookup
\* is found by every lookup issued more than 60 s after that failed lookup.
C20_LateTenantFound ==
  \A j, k \in DOMAIN lookups :
    ( /\ lookups[j].st = "done" /\ ~lookups[j].found
      /\ lookups[k].st = "done" /\ lookups[k].slug = lookups[j].slug
      /\ lookups[k].failure = ""
      /\ lookups[k].issuedAt > lookups[j].doneAt + NEGATIVE_TTL_S
      /\ \E r \in dbRows : /\ r.slug = lookups[j].slug
                           /\ r.at > lookups[j].doneAt
                           /\ r.at < lookups[k].issuedAt )
    => lookups[k].found

\* C21: a Tenant Store failure is treated as not found and never propagates: a
\* lookup made without a pool or whose query threw settles to null, is never
\* rejected, and detectSite continues with null as for an unknown tenant.
C21_StoreFailureIsNotFound ==
  \A k \in DOMAIN lookups :
    /\ ~lookups[k].rejected
    /\ (lookups[k].st = "done" /\ lookups[k].failure # "")
         => /\ lookups[k].value = NullSite /\ ~lookups[k].found
            /\ lookups[k].detected = NullSite

\* C21 witness: the tenant has rows, one lookup found no pool and another one's
\* query threw
C21_Witness ==
  /\ dbRows # {}
  /\ \E j, k \in DOMAIN lookups :
       /\ lookups[j].st = "done" /\ lookups[j].failure = "no pool"
       /\ lookups[k].st = "done" /\ lookups[k].failure = "query threw"

\* C22: within every request, tenant resolution has completed before the handler
\* decides between serving or forwarding and answering 404: no handler takes
\* that decision on a promise instead of the resolver's result.
C22_ResolvedBeforeDecision ==
  \A i \in DOMAIN reqs : reqs[i].st = "done" => ~reqs[i].decidedOnPromise

\* the tenant, neocore and backend path a request names by its path
\* (/vpn/S/neocore/N/api/p, no Referer, no cookie) or by its Referer (/api/p with
\* a Referer under /vpn/S/neocore/N/)
PathForm(r) ==
  NeocorePath(r.url, "api") /\ r.referer = <<>> /\ r.origin = <<>> /\ r.cookie = <<>>
RefererForm(r) ==
  /\ Len(r.url) >= 1 /\ r.url[1] = "api" /\ r.cookie = <<>>
  /\ Len(r.referer) >= 5 /\ getSiteAndNeocoreFromPath(r.referer).ok
NamedBinding(r) ==
  IF PathForm(r)
  THEN [site |-> r.url[2], id |-> r.url[4], path |-> SubSeq(r.url, 5, Len(r.url))]
  ELSE [site |-> r.referer[2], id |-> r.referer[4], path |-> r.url]

\* the tenant S has the neocore N in the configuration or in the Tenant Store cache
KnownNeocore(slug, id) ==
  \/ HasNeocore(SiteOf(SITES, slug), id)
  \/ slug \in DOMAIN siteCache /\ HasNeocore(siteCache[slug], id)

\* C23: path-based and Referer-based resolution agree: a request in either form
\* for a known tenant S and neocore N is forwarded through the api proxy of key
\* S:N and reaches the backend with the path /api/p.
C23_PathAndRefererAgree ==
  \A i \in DOMAIN reqs :
    (/\ reqs[i].st = "done"
     /\ PathForm(reqs[i].r) \/ RefererForm(reqs[i].r)
     /\ KnownNeocore(NamedBinding(reqs[i].r).site, NamedBinding(reqs[i].r).id))
    => /\ reqs[i].via.reg = "api"
       /\ reqs[i].via.key = <<NamedBinding(reqs[i].r).site, ":", NamedBinding(reqs[i].r).id>>
       /\ reqs[i].apiPath = NamedBinding(reqs[i].r).path

\* C23 witness: a path-form and a Referer-form request for the same tenant and
\* neocore, known from the Tenant Store only, went through the same instance
\* with the same backend path
C23_Witness ==
  \E i, j \in DOMAIN reqs :
    /\ reqs[i].st = "done" /\ reqs[j].st = "done"
    /\ PathForm(reqs[i].r) /\ RefererForm(reqs[j].r)
    /\ NamedBinding(reqs[i].r).site = "s2" /\ NamedBinding(reqs[j].r).site = "s2"
    /\ ~HasNeocore(SiteOf(SITES, "s2"), "0")
    /\ reqs[i].via = reqs[j].via /\ reqs[i].via.reg = "api"
    /\ reqs[i].apiPath = <<"api", "x">> /\ reqs[j].apiPath = <<"api", "x">>

\* the tenant is not configured and the Tenant Store does not have it
UnknownTenant(slug) ==
  /\ ~Truthy(SiteOf(SITES, slug))
  /\ slug \notin DOMAIN siteCache \/ ~Truthy(siteCache[slug])

\* C24: a request to /vpn/S/neocore/N/x whose tenant S is unknown is answered 404
\* with the JSON body {"error":"Site not found"} and is never forwarded.
C24_UnknownTenantIs404 ==
  \A i \in DOMAIN reqs :
    (/\ reqs[i].st = "done" /\ reqs[i].h = "page"
     /\ UnknownTenant(reqs[i].r.url[2]))
    => /\ reqs[i].via = NoInst
       /\ reqs[i].answer = Answer(404, "Site not found")

\* one of the request's own signals (path, Referer, Origin, cookie) names the tenant
SignalNames(r, slug) ==
  \/ getSiteAndNeocoreFromPath(r.url).siteSlug = slug
  \/ UrlSiteSlug(r.url) = slug
  \/ HeaderSiteSlug(r.referer) = slug
  \/ HeaderSiteSlug(r.origin) = slug
  \/ CookieLoose(r.cookie, "vpn-site") = slug

\* C25: site isolation: an upgrade is handed to tenant T's forwarding instance
\* only if one of the signals of the request as it was received names T; an
\* upgrade none of whose signals resolves is never forwarded.
C25_ForwardedOnlyWhereNamed ==
  \A k \in DOMAIN conn.wsCalls :
    SignalNames(conn.received, conn.wsCalls[k].proxy.key[1])

\* a process of the site has failed and site.devices.ssh refers to none (a
\* process stopped by stopSocksTunnel counts once its 'exit' has been delivered)
TunnelDown ==
  /\ tunnel.ssh = 0
  /\ \E k \in DOMAIN tunnel.procs : tunnel.procs[k] \in {"exited", "errored"}
  /\ \A k \in DOMAIN tunnel.procs : tunnel.procs[k] # "stopped"

\* C26: auto-reconnect: whenever a tunnel process emits exit or error,
\* tunnelReady becomes false and a restart timer is set; and under fairness a
\* tunnel that is down is always eventually started again.
C26_AutoReconnect ==
  /\ [][(\E k \in DOMAIN tunnel.procs :
           /\ tunnel'.procs[k] # tunnel.procs[k]
           /\ tunnel'.procs[k] \in {"exited", "errored"})
        => /\ ~tunnel'.tunnelReady
           /\ tunnel'.timers = tunnel.timers + 1]_vars
  /\ (TunnelDown ~> tunnel.ssh # 0)

\* C26 witness: two processes have failed, one by exit and one by error, and a
\* third one is running and ready
C26_Witness ==
  /\ tunnel # <<>> /\ Len(tunnel.procs) >= 3
  /\ \E j, k \in DOMAIN tunnel.procs : tunnel.procs[j] = "exited" /\ tunnel.procs[k] = "errored"
  /\ tunnel.ssh # 0 /\ tunnel.procs[tunnel.ssh] = "running" /\ tunnel.tunnelReady

\* C30: at most one ssh process of the site is running at any time, and
\* site.devices.ssh refers to the running process if there is one.
C30_SingleLiveTunnel ==
  \A j, k \in DOMAIN tunnel.procs :
    (tunnel.procs[j] = "running" /\ tunnel.procs[k] = "running")
      => j = k /\ tunnel.ssh = k

\* C27: getSiteBySlug for a slug that has active rows in the Tenant Store and no
\* cache entry returns the site's configuration, not null, and caches it until
\* now + 5 minutes.
C27_StoredTenantFound ==
  \A k \in DOMAIN lookups :
    (/\ lookups[k].st = "done" /\ lookups[k].queried /\ lookups[k].failure = ""
     /\ \E r \in dbRows : r.slug = lookups[k].slug /\ r.at < lookups[k].issuedAt)
    => /\ lookups[k].found
       /\ lookups[k].value = StoreSite(lookups[k].slug)

\* C28: the cache never serves an expired entry: a value comes from the cache
\* only when the entry's expiresAt is strictly later than the time of the call,
\* and a call that finds an expired entry deletes it and does not answer from it.
C28_NoExpiredEntryServed ==
  /\ [](\A k \in DOMAIN lookups :
          lookups[k].fromCache => lookups[k].servedExpiresAt > lookups[k].issuedAt)
  /\ [][\A slug \in CacheSlugs :
          (/\ slug \in DOMAIN cacheEntries /\ cacheEntries[slug].expiresAt <= now
           /\ Len(lookups') > Len(lookups) /\ lookups'[Len(lookups')].slug = slug)
          => /\ slug \notin DOMAIN cacheEntries'
             /\ ~lookups'[Len(lookups')].fromCache]_vars

\* C28 witness: a lookup wrote an entry, and a later call made exactly when that
\* entry expired was not answered from the cache
C28_Witness ==
  \E j, k \in DOMAIN lookups :
    /\ lookups[j].st = "done" /\ lookups[j].queried /\ lookups[j].failure = ""
    /\ lookups[k].slug = lookups[j].slug
    /\ lookups[k].issuedAt = lookups[j].doneAt + NEGATIVE_TTL_S
    /\ ~lookups[k].fromCache

\* C29: updateSitesConfiguration(newSites) with null, undefined or an empty
\* object returns false and leaves SITES unchanged; with a non-empty object it
\* replaces SITES as a whole and returns true; so the configuration the handlers
\* read is never emptied by a refresh.
C29_UpdateKeepsOrReplaces ==
  /\ \A k \in DOMAIN updates :
       IF updates[k].arg.kind = "object" /\ updates[k].arg.sites # <<>>
       THEN updates[k].returned /\ updates[k].after = updates[k].arg.sites
       ELSE ~updates[k].returned /\ updates[k].after = updates[k].before
  /\ updates # <<>> => SITES # <<>>

\* C29 witness: a refresh that delivered null was refused while requests were
\* being served, and the configuration is the one from before
C29_Witness ==
  /\ \E k \in DOMAIN updates :
       /\ updates[k].arg.kind = "null" /\ ~updates[k].returned
       /\ updates[k].before # <<>> /\ SITES = updates[k].before
  /\ \E i \in DOMAIN reqs : reqs[i].st = "done" /\ reqs[i].via # NoInst

\* C31: stopSocksTunnel is final: once it has killed the site's process, with no
\* start attempt pending at that moment, no further process is spawned for the
\* site and tunnelReady stays false.
C31_StopIsFinal ==
  (tunnel.stopped /\ tunnel.quietAtStop)
    => /\ Len(tunnel.procs) = tunnel.stoppedAt
       /\ ~tunnel.tunnelReady

C33_AnsweredAtMostOnce ==
  fwd # <<>> => fwd.res.writes <= 1

\* C33 witness: onError answered 502 while the body was buffered, and the 'end'
\* listener that ran afterwards wrote nothing
C33_Witness ==
  /\ fwd # <<>> /\ fwd.late # "" /\ fwd.buffered /\ fwd.pc = "done"
  /\ fwd.res.status = 502 /\ fwd.res.error = "Proxy error" /\ fwd.res.writes = 1
  /\ fwd.res.body = <<>>

\* C34: invalidateSiteCache is effective against lookups in flight: a lookup
\* whose query read the database before the invalidation never installs its
\* result in the cache afterwards, and no later getSiteBySlug is answered
\* from such an entry.
C34_InvalidateEffective ==
  /\ \A slug \in DOMAIN cacheEntries : ~cacheEntries[slug].stale
  /\ \A k \in DOMAIN lookups : ~lookups[k].servedStale

\* detectSiteAndNeocore, lines 106-119: the signal the slug is taken from
SanSlugSignal(r) ==
  IF getSiteAndNeocoreFromPath(r.url).ok THEN "path"
  ELSE IF HeaderSiteSlug(r.referer) # NoStr THEN "referer"
  ELSE IF r.cookie # <<>> /\ CookieLoose(r.cookie, "vpn-site") # NoStr THEN "cookie"
  ELSE "none"

\* detectSiteAndNeocore, lines 106-110: the signal the neocore id is taken from
SanIdSignal(r) ==
  IF getSiteAndNeocoreFromPath(r.url).ok THEN "path"
  ELSE IF getNeocoreIdFromReferer(r.referer) # NoStr THEN "referer"
  ELSE IF getNeocoreIdFromCookie(r) # NoStr THEN "cookie"
  ELSE "none"

\* C35: the binding detectSiteAndNeocore returns takes its slug and its neocore
\* id from the same signal (path, Referer or cookie), never the slug of one
\* and the id of another, and the id is one of the resolved tenant's neocores.
C35_PairFromOneSignal ==
  (SanDone /\ rSan.ok)
    => /\ SanSlugSignal(req) = SanIdSignal(req)
       /\ HasNeocore(rSan.site, rSan.neocoreId)

---------------------------------------------------------------------------
(* Device-asset middleware: registerDevicesRoutes (part_002 lines 644-673) and
   detectDeviceFromReferer (lines 138-163) *)

\* a tenant of the Tenant Store with its devices block: devices.enabled and
\* devices.deviceList
MwSite(name, enabled, deviceList) ==
  [kind |-> "site", name |-> name, neocores |-> EmptyMap, devices |-> deviceList,
   enabled |-> enabled]

S3on == MwSite("s3", TRUE, ("d1" :> "http://172.16.4.100:80"))
S4off == MwSite("s4", FALSE, ("d1" :> "http://172.16.5.100:80"))

\* first path segments that begin with "api", "socket.io" and "health"
ApiPrefixed == {"api", "apiary.js"}
SocketIoPrefixed == {"socket.io"}
HealthPrefixed == {"health", "healthz"}

\* names that match /^\/main\.[^\/]+\.(js|css)$/
MainBundles == {"main.e1802fd1.js", "main.959413d2.css"}

\* a skip test that lets tenant-prefixed urls through
SkipsAllButVpn(url) ==
  \/ url = <<>>
  \/ url[1] \in ApiPrefixed \cup SocketIoPrefixed \cup HealthPrefixed
  \/ Len(url) >= 2 /\ url[1] = "static"
  \/ Len(url) = 1 /\ url[1] \in MainBundles

\* the skip test of the middleware (lines 648-655); an empty req.url reaches
\* detectDeviceFromReferer with url = ''
SkipsRewrite(url) ==
  /\ url # <<>>
  /\ \/ Len(url) >= 2 /\ url[1] = "vpn"
     \/ url[1] \in ApiPrefixed
     \/ url[1] \in SocketIoPrefixed
     \/ url[1] \in HealthPrefixed
     \/ Len(url) >= 2 /\ url[1] = "static"
     \/ Len(url) = 1 /\ url[1] \in MainBundles

\* referer.match(/\/vpn\/([^\/]+)\/devices\/([^\/\?]+)/) (line 142): leftmost match
deviceMatch(referer) ==
  LET I == {i \in 1..Len(referer) : /\ i + 3 <= Len(referer) /\ referer[i] = "vpn"
                                      /\ referer[i+1] # "" /\ referer[i+2] = "devices"
                                      /\ referer[i+3] # ""} IN
  IF I = {} THEN [ok |-> FALSE, siteSlug |-> NoStr, deviceId |-> NoStr]
  ELSE [ok |-> TRUE, siteSlug |-> referer[Min(I) + 1], deviceId |-> referer[Min(I) + 3]]

\* allSites[siteSlug] of line 146: the middleware passes the function
\* getCurrentSites for allSites (line 660), and a function has no tenant as a
\* property
GetterMember(slug) == NullSite

\* site?.devices?.enabled && site.devices.deviceList?.[deviceId] (line 157)
EnabledDevice(site, deviceId) ==
  site.kind = "site" /\ site.enabled /\ deviceId \in DOMAIN site.devices

\* req.url = `/vpn/${site.name}/devices/${deviceId}${url}` (line 666)
DeviceAssetUrl(site, deviceId, url) == <<"vpn", site.name, "devices", deviceId>> \o url

MwUrls ==
  {<<"logo.png">>, <<"images", "a.png">>, <<"vpn", "s3", "devices", "d1", "logo.png">>,
   <<"vpn", "s3", "neocore", "0", "x">>, <<"vpn">>, <<"api", "x">>, <<"apiary.js">>,
   <<"socket.io", "">>, <<"healthz">>, <<"static", "js", "x.js">>, <<"static">>,
   <<"main.e1802fd1.js">>, <<"main.js">>, <<"js", "main.959413d2.css">>, <<>>}

MwReferers ==
  {<<>>, <<"vpn", "s3", "devices", "d1", "">>, <<"vpn", "s3", "devices", "d9", "page">>,
   <<"vpn", "s4", "devices", "d1", "">>, <<"vpn", "s9", "devices", "d1">>,
   <<"vpn", "s3", "devices">>, <<"vpn", "s3", "neocore", "0", "page">>}

\* contents of the Tenant Store cache when the request arrives
MwStores == {EmptyMap, ("s3" :> S3on @@ "s4" :> S4off), ("s3" :> NullSite)}

NewMw(url, referer) ==
  [url |-> url, referer |-> referer, st |-> "new", reqUrl |-> url, nexts |-> 0,
   pending |-> NoStr, deviceId |-> NoStr, lookupThrew |-> FALSE, rewrote |-> FALSE]

InitMw ==
  /\ SITES = <<S1d>>
  /\ siteCache \in MwStores
  /\ ResolveIdle
  /\ RegistryIdle
  /\ UpgradeIdle
  /\ UpdIdle
  /\ ShareIdle
  /\ RewriteIdle
  /\ RespIdle
  /\ TunnelIdle
  /\ CacheIdle
  /\ SessIdle
  /\ mw \in {NewMw(url, referer) : url \in MwUrls, referer \in MwReferers}

\* the middleware up to its await (lines 645-660): a skipped url goes to next()
\* at once; a Referer without a device gives null; otherwise the static lookup
\* of line 146 finds nothing and getSiteBySlug is awaited
DeviceAssetBegin ==
  /\ mw.st = "new"
  /\ \E m \in {deviceMatch(mw.referer)} :
       IF SkipsRewrite(mw.url) \/ ~m.ok
       THEN mw' = [mw EXCEPT !.st = "done", !.nexts = @ + 1]
       ELSE IF HasDevice(GetterMember(m.siteSlug), m.deviceId)
       THEN mw' = [mw EXCEPT !.st = "done", !.nexts = @ + 1, !.rewrote = TRUE,
                     !.reqUrl = DeviceAssetUrl(GetterMember(m.siteSlug), m.deviceId, mw.url)]
       ELSE mw' = [mw EXCEPT !.st = "await", !.pending = m.siteSlug,
                     !.deviceId = m.deviceId]
  /\ UNCHANGED <<coreVars, upgVars, notMw>>

\* getSiteBySlug settles (lines 150-158) and the middleware finishes (lines 662-669)
DeviceAssetResume(throws) ==
  /\ mw.st = "await"
  /\ \E site \in {IF throws THEN GetterMember(mw.pending)
                   ELSE getSiteBySlug(siteCache, mw.pending)} :
       mw' = IF EnabledDevice(site, mw.deviceId)
             THEN [mw EXCEPT !.st = "done", !.nexts = @ + 1, !.rewrote = TRUE,
                     !.lookupThrew = throws,
                     !.reqUrl = DeviceAssetUrl(site, mw.deviceId, mw.url)]
             ELSE [mw EXCEPT !.st = "done", !.nexts = @ + 1, !.lookupThrew = throws]
  /\ siteCache' = IF throws THEN siteCache ELSE CacheAfterGet(siteCache, mw.pending)
  /\ UNCHANGED <<SITES, resolveVars, regVars, upgVars, notMw>>

NextMw ==
  \/ DeviceAssetBegin
  \/ \E throws \in BOOLEAN : DeviceAssetResume(throws)

SpecMw == InitMw /\ [][NextMw]_vars

\* the reserved prefixes the claim lists
ReservedUrl(url) ==
  /\ url # <<>>
  /\ \/ Len(url) >= 2 /\ url[1] \in {"vpn", "static"}
     \/ url[1] \in {"api", "apiary.js", "socket.io", "health", "healthz"}
     \/ url \in {<<"main.e1802fd1.js">>, <<"main.959413d2.css">>}

\* the Referer names device d of tenant s, and the Tenant Store holds s with
\* its devices enabled and d among them
RefererNamesEnabledDevice(referer, store, s, d) ==
  /\ \E i \in 1..Len(referer) :
        /\ i + 3 <= Len(referer) /\ <<referer[i], referer[i+2]>> = <<"vpn", "devices">>
        /\ referer[i+1] = s /\ referer[i+3] = d
  /\ s \in DOMAIN store /\ store[s].kind = "site" /\ store[s].enabled
  /\ d \in DOMAIN store[s].devices

\* C36: the device-asset middleware rewrites req.url to
\* /vpn/{site}/devices/{deviceId}{url} only when the url is not reserved and
\* the Referer names an enabled device of a tenant the store resolves; otherwise
\* req.url is unchanged, a tenant-prefixed url is never prefixed again, and
\* next() is called exactly once.
C36_RewriteOnlyForDeviceAssets ==
  mw # <<>> =>
    /\ mw.nexts = (IF mw.st = "done" THEN 1 ELSE 0)
    /\ mw.reqUrl # mw.url
         => /\ ~ReservedUrl(mw.url)
            /\ \E s \in {"s3", "s4", "s9"}, d \in {"d1", "d9"} :
                  /\ RefererNamesEnabledDevice(mw.referer, siteCache, s, d)
                  /\ mw.reqUrl = <<"vpn", s, "devices", d>> \o mw.url
    /\ (Len(mw.url) >= 2 /\ mw.url[1] = "vpn") => mw.reqUrl = mw.url

\* C36 witness: a root-level asset requested from a device page has been
\* rewritten and handed on
C36_Witness ==
  /\ mw # <<>> /\ mw.st = "done" /\ mw.nexts = 1
  /\ mw.url = <<"logo.png">> /\ mw.referer = <<"vpn", "s3", "devices", "d1", "">>
  /\ mw.reqUrl = <<"vpn", "s3", "devices", "d1", "logo.png">>

---------------------------------------------------------------------------
(* Session store (part_007) and session-bound assets (assetsService.js lines
   85-92, 166-197, 237-243) *)

MAX_AGE_H == 24
ASSET_CACHE_LIMIT == 100
MaxSessions == 2
SessTick == 12
MaxClock == 36

SessSites == {"s1", "s2"}
JS_FILE == "main.e1802fd1.js"
CSS_FILE == "main.959413d2.css"

\* the files of ASSETS_DIR, and the names getAsset is called with
FilesOnDisk == {JS_FILE, CSS_FILE}
FileNames == {JS_FILE, "missing.js"}

InitSession ==
  /\ SITES = <<S1d>>
  /\ siteCache = EmptyMap
  /\ ResolveIdle
  /\ RegistryIdle
  /\ UpgradeIdle
  /\ UpdIdle
  /\ ShareIdle
  /\ RewriteIdle
  /\ RespIdle
  /\ TunnelIdle
  /\ CacheIdle
  /\ MwIdle
  /\ sessions = <<>>
  /\ siteSessions = <<>>
  /\ assetCache = <<>>
  /\ clock = 0
  /\ issued = 0
  /\ calls = <<>>

\* time passes
SessAdvance ==
  /\ clock < MaxClock
  /\ clock' = clock + SessTick
  /\ UNCHANGED <<coreVars, upgVars, notSess, mw, sessions, siteSessions, assetCache,
                 issued, calls>>

\* a cleanup that forgets the per-site set
KeepInSite(bySite, siteName, sessionId) == bySite

\* siteSessions.get(siteName).delete(sessionId) when the site has a set (lines 66-68)
DeleteFromSite(bySite, siteName, sessionId) ==
  IF siteName \in DOMAIN bySite
  THEN [bySite EXCEPT ![siteName] = @ \ {sessionId}]
  ELSE bySite

\* createSession(siteName) (lines 16-32); a 128-bit random id is one that was
\* never produced before
createSession(siteName) ==
  /\ issued < MaxSessions
  /\ \E sessionId \in {issued + 1} :
       /\ issued' = sessionId
       /\ sessions' = [x \in DOMAIN sessions \cup {sessionId} |->
                         IF x = sessionId
                         THEN [siteName |-> siteName, createdAt |-> clock,
                               lastAccess |-> clock]
                         ELSE sessions[x]]
       /\ siteSessions' = [x \in DOMAIN siteSessions \cup {siteName} |->
                             IF x = siteName
                             THEN (IF x \in DOMAIN siteSessions THEN siteSessions[x] ELSE {})
                                    \cup {sessionId}
                             ELSE siteSessions[x]]
  /\ UNCHANGED <<coreVars, upgVars, notSess, mw, assetCache, clock, calls>>

\* the sessions cleanupOldSessions deletes (line 63)
OldSessions(sess, t, maxAge) == {x \in DOMAIN sess : t - sess[x].lastAccess > maxAge}

RECURSIVE DeleteAllFromSites(_, _, _)
\* the loop of cleanupOldSessions over the old sessions (lines 62-71)
DeleteAllFromSites(bySite, sess, ids) ==
  IF ids = {} THEN bySite
  ELSE LET x == CHOOSE y \in ids : TRUE IN
       DeleteAllFromSites(DeleteFromSite(bySite, sess[x].siteName, x), sess, ids \ {x})

\* cleanupOldSessions(maxAge = 24 h) (lines 58-76), run by the hourly timer of
\* lines 79-81; a run that finds nothing to delete changes nothing
cleanupOldSessions ==
  /\ \E old \in {OldSessions(sessions, clock, MAX_AGE_H)} :
       /\ old # {}
       /\ sessions' = [x \in DOMAIN sessions \ old |-> sessions[x]]
       /\ siteSessions' = DeleteAllFromSites(siteSessions, sessions, old)
  /\ UNCHANGED <<coreVars, upgVars, notSess, mw, assetCache, clock, issued, calls>>

\* getSiteFromSession(sessionId) (lines 37-46): the value returned
getSiteFromSession(sess, sessionId) ==
  IF sessionId \in DOMAIN sess THEN sess[sessionId].siteName ELSE NoStr

\* getSiteFromSession(sessionId): session.lastAccess = Date.now() (line 42)
TouchSession(sess, sessionId, t) ==
  IF sessionId \in DOMAIN sess THEN [sess EXCEPT ![sessionId].lastAccess = t] ELSE sess

\* rewriteAssetContent(content, siteName, fileType) (lines 97-161): the file's
\* paths carry the prefix /vpn/{siteName}/neocore
rewriteAssetContent(fileName, siteName) ==
  [file |-> fileName, sitePrefix |-> <<"vpn", siteName, "neocore">>]

Thrown(message) == [threw |-> TRUE, error |-> message, content |-> <<>>, caches |-> FALSE]
Returned(content, caches) ==
  [threw |-> FALSE, error |-> "", content |-> content, caches |-> caches]

\* a getAsset that looks in the cache before it looks at the session
getAssetCacheFirst(sess, cache, sessionId, fileName) ==
  IF <<sessionId, fileName>> \in DOMAIN cache
  THEN Returned(cache[<<sessionId, fileName>>], FALSE)
  ELSE IF getSiteFromSession(sess, sessionId) = NoStr
  THEN Thrown("Invalid or expired session")
  ELSE IF fileName \notin FilesOnDisk THEN Thrown("Asset not found")
  ELSE Returned(rewriteAssetContent(fileName, getSiteFromSession(sess, sessionId)),
                Cardinality(DOMAIN cache) < ASSET_CACHE_LIMIT)

\* getAsset(sessionId, fileName) (lines 166-197): what it returns or throws
getAssetResult(sess, cache, sessionId, fileName) ==
  IF getSiteFromSession(sess, sessionId) = NoStr
  THEN Thrown("Invalid or expired session")
  ELSE IF <<sessionId, fileName>> \in DOMAIN cache
  THEN Returned(cache[<<sessionId, fileName>>], FALSE)
  ELSE IF fileName \notin FilesOnDisk THEN Thrown("Asset not found")
  ELSE Returned(rewriteAssetContent(fileName, getSiteFromSession(sess, sessionId)),
                Cardinality(DOMAIN cache) < ASSET_CACHE_LIMIT)

\* getAsset(sessionId, fileName): the call with its effects on the session's
\* lastAccess and on assetCache
getAsset(sessionId, fileName) ==
  /\ \E out \in {getAssetResult(sessions, assetCache, sessionId, fileName)} :
       /\ sessions' = TouchSession(sessions, sessionId, clock)
       /\ assetCache' = IF out.caches
                         THEN [x \in DOMAIN assetCache \cup {<<sessionId, fileName>>} |->
                                 IF x = <<sessionId, fileName>> THEN out.content
                                 ELSE assetCache[x]]
                         ELSE assetCache
       /\ calls' =
            <<[sessionId |-> sessionId, fileName |-> fileName,
               live |-> sessionId \in DOMAIN sessions,
               boundTo |-> IF sessionId \in DOMAIN sessions
                           THEN sessions[sessionId].siteName ELSE NoStr,
               wasCached |-> <<sessionId, fileName>> \in DOMAIN assetCache,
               threw |-> out.threw, error |-> out.error, content |-> out.content]>>
  /\ UNCHANGED <<coreVars, upgVars, notSess, mw, siteSessions, clock, issued>>

\* clearCacheForSession(sessionId) (lines 237-243); session ids have one length,
\* so a key starts with the id exactly when it is a key of that session
clearCacheForSession(sessionId) ==
  /\ \E x \in DOMAIN assetCache : x[1] = sessionId
  /\ assetCache' = [x \in {y \in DOMAIN assetCache : y[1] # sessionId} |-> assetCache[x]]
  /\ UNCHANGED <<coreVars, upgVars, notSess, mw, sessions, siteSessions, clock, issued,
                 calls>>

NextSession ==
  \/ SessAdvance
  \/ \E siteName \in SessSites : createSession(siteName)
  \/ cleanupOldSessions
  \/ \E sessionId \in 1..MaxSessions, fileName \in FileNames : getAsset(sessionId, fileName)
  \/ \E sessionId \in 1..MaxSessions : clearCacheForSession(sessionId)

SpecSession == InitSession /\ [][NextSession]_vars

\* the two maps of the session store describe the same sessions
SessionMapsAgree ==
  /\ \A siteName \in DOMAIN siteSessions : \A x \in siteSessions[siteName] :
        x \in DOMAIN sessions /\ sessions[x].siteName = siteName
  /\ \A x \in DOMAIN sessions :
        /\ sessions[x].siteName \in DOMAIN siteSessions
        /\ x \in siteSessions[sessions[x].siteName]

\* C37: a session id is in siteSessions[site] exactly when sessions maps it to
\* a record of that site, and a session disappears only when its last access
\* is older than maxAge, from both maps in the same step.
C37_SessionStoreConsistent ==
  /\ []SessionMapsAgree
  /\ [][\A x \in DOMAIN sessions :
          x \notin DOMAIN sessions'
            => /\ clock - sessions[x].lastAccess > MAX_AGE_H
               /\ \A siteName \in DOMAIN siteSessions' : x \notin siteSessions'[siteName]]_vars

\* C37 witness: the cleanup has removed an old session and kept a recent one
C37_Witness ==
  /\ issued = 2 /\ DOMAIN sessions = {2}
  /\ clock - sessions[2].lastAccess <= MAX_AGE_H
  /\ \E siteName \in DOMAIN siteSessions : siteSessions[siteName] = {2}
  /\ \A siteName \in DOMAIN siteSessions : 1 \notin siteSessions[siteName]

\* C38: getAsset returns content only to a live session, and the content is
\* the one rewritten for the tenant that session is bound to; for an unknown or
\* cleaned-up session it throws 'Invalid or expired session' even when the
\* cache still holds content under the session's key.
C38_AssetsOnlyForLiveSession ==
  \A k \in DOMAIN calls :
    /\ ~calls[k].threw
         => /\ calls[k].live
            /\ calls[k].content = rewriteAssetContent(calls[k].fileName, calls[k].boundTo)
    /\ ~calls[k].live
         => calls[k].threw /\ calls[k].error = "Invalid or expired session"

\* C38 witness: a cleaned-up session asks for a file whose rewritten content
\* is still cached under its key, and is refused
C38_Witness ==
  \E k \in DOMAIN calls :
    /\ ~calls[k].live /\ calls[k].wasCached /\ calls[k].sessionId <= issued
    /\ calls[k].threw /\ calls[k].error = "Invalid or expired session"
====
